---- MODULE Spec2Model ----
(***************************************************************************)
(* Tool invocation envelope of the multi_tool_agent sub-agents.            *)
(*                                                                         *)
(* An agent runtime invokes one tool function at a time.  A tool function  *)
(* validates its arguments, normalizes them, reads the credentials from    *)
(* the process environment, talks to an external service and shapes a     *)
(* result mapping.  Strings are sequences of one-character strings, a      *)
(* result mapping is a record whose domain is the set of keys the code    *)
(* puts into the returned dict, and every call a tool makes to something   *)
(* outside the process (exchange handle, HTTP request, browser) is        *)
(* appended to the trace of the invocation.                                *)
(***************************************************************************)
EXTENDS Integers, Sequences, FiniteSets, TLC

VARIABLES pc, inv, env, dotenv_file, attempts, response, thread, browser, process, executions

vars == <<pc, inv, env, dotenv_file, attempts, response, thread, browser, process, executions>>

(***************************************************************************)
(* Python str operations used by the tools.                                *)
(***************************************************************************)
\* A string is the sequence of its characters.  A character up to U+00FF is
\* written as itself; a character above U+00FF, which a TLA+ string cannot
\* hold, is written by its code point ("U+0178"), and so is the grave accent
\* ("U+0060").  The tables are those of Unicode 14.0, the version of the
\* interpreter the tools run on.

\* the characters str.strip() removes: the ASCII and Latin-1 white space, then
\* the Unicode spaces above U+00FF
IsSpace(c) ==
    \/ c \in {" ", "\t", "\n", "\r", "\f", "", "", "", "", "", "", " "}
    \/ c \in {"U+1680", "U+2000", "U+2001", "U+2002", "U+2003", "U+2004", "U+2005", "U+2006", "U+2007", "U+2008", "U+2009", "U+200A", "U+2028", "U+2029", "U+202F", "U+205F", "U+3000"}

\* the characters str.upper() changes, in the order of their code points
UpperFrom ==
    <<"a", "b", "c", "d", "e", "f", "g", "h", "i", "j", "k", "l",
     "m", "n", "o", "p", "q", "r", "s", "t", "u", "v", "w", "x",
     "y", "z", "µ", "ß", "à", "á", "â", "ã", "ä", "å", "æ", "ç",
     "è", "é", "ê", "ë", "ì", "í", "î", "ï", "ð", "ñ", "ò", "ó",
     "ô", "õ", "ö", "ø", "ù", "ú", "û", "ü", "ý", "þ", "ÿ", "U+0101",
     "U+0103", "U+0105", "U+0107", "U+0109", "U+010B", "U+010D", "U+010F", "U+0111", "U+0113", "U+0115", "U+0117", "U+0119",
     "U+011B", "U+011D", "U+011F", "U+0121", "U+0123", "U+0125", "U+0127", "U+0129", "U+012B", "U+012D", "U+012F", "U+0131",
     "U+0133", "U+0135", "U+0137", "U+013A", "U+013C", "U+013E", "U+0140", "U+0142", "U+0144", "U+0146", "U+0148", "U+0149",
     "U+014B", "U+014D", "U+014F", "U+0151", "U+0153", "U+0155", "U+0157", "U+0159", "U+015B", "U+015D", "U+015F", "U+0161",
     "U+0163", "U+0165", "U+0167", "U+0169", "U+016B", "U+016D", "U+016F", "U+0171", "U+0173", "U+0175", "U+0177", "U+017A",
     "U+017C", "U+017E", "U+017F", "U+0180", "U+0183", "U+0185", "U+0188", "U+018C", "U+0192", "U+0195", "U+0199", "U+019A",
     "U+019E", "U+01A1", "U+01A3", "U+01A5", "U+01A8", "U+01AD", "U+01B0", "U+01B4", "U+01B6", "U+01B9", "U+01BD", "U+01BF",
     "U+01C5", "U+01C6", "U+01C8", "U+01C9", "U+01CB", "U+01CC", "U+01CE", "U+01D0", "U+01D2", "U+01D4", "U+01D6", "U+01D8",
     "U+01DA", "U+01DC", "U+01DD", "U+01DF", "U+01E1", "U+01E3", "U+01E5", "U+01E7", "U+01E9", "U+01EB", "U+01ED", "U+01EF",
     "U+01F0", "U+01F2", "U+01F3", "U+01F5", "U+01F9", "U+01FB", "U+01FD", "U+01FF", "U+0201", "U+0203", "U+0205", "U+0207",
     "U+0209", "U+020B", "U+020D", "U+020F", "U+0211", "U+0213", "U+0215", "U+0217", "U+0219", "U+021B", "U+021D", "U+021F",
     "U+0223", "U+0225", "U+0227", "U+0229", "U+022B", "U+022D", "U+022F", "U+0231", "U+0233", "U+023C", "U+023F", "U+0240",
     "U+0242", "U+0247", "U+0249", "U+024B", "U+024D", "U+024F", "U+0250", "U+0251", "U+0252", "U+0253", "U+0254", "U+0256",
     "U+0257", "U+0259", "U+025B", "U+025C", "U+0260", "U+0261", "U+0263", "U+0265", "U+0266", "U+0268", "U+0269", "U+026A",
     "U+026B", "U+026C", "U+026F", "U+0271", "U+0272", "U+0275", "U+027D", "U+0280", "U+0282", "U+0283", "U+0287", "U+0288",
     "U+0289", "U+028A", "U+028B", "U+028C", "U+0292", "U+029D", "U+029E", "U+0345", "U+0371", "U+0373", "U+0377", "U+037B",
     "U+037C", "U+037D", "U+0390", "U+03AC", "U+03AD", "U+03AE", "U+03AF", "U+03B0", "U+03B1", "U+03B2", "U+03B3", "U+03B4",
     "U+03B5", "U+03B6", "U+03B7", "U+03B8", "U+03B9", "U+03BA", "U+03BB", "U+03BC", "U+03BD", "U+03BE", "U+03BF", "U+03C0",
     "U+03C1", "U+03C2", "U+03C3", "U+03C4", "U+03C5", "U+03C6", "U+03C7", "U+03C8", "U+03C9", "U+03CA", "U+03CB", "U+03CC",
     "U+03CD", "U+03CE", "U+03D0", "U+03D1", "U+03D5", "U+03D6", "U+03D7", "U+03D9", "U+03DB", "U+03DD", "U+03DF", "U+03E1",
     "U+03E3", "U+03E5", "U+03E7", "U+03E9", "U+03EB", "U+03ED", "U+03EF", "U+03F0", "U+03F1", "U+03F2", "U+03F3", "U+03F5",
     "U+03F8", "U+03FB", "U+0430", "U+0431", "U+0432", "U+0433", "U+0434", "U+0435", "U+0436", "U+0437", "U+0438", "U+0439",
     "U+043A", "U+043B", "U+043C", "U+043D", "U+043E", "U+043F", "U+0440", "U+0441", "U+0442", "U+0443", "U+0444", "U+0445",
     "U+0446", "U+0447", "U+0448", "U+0449", "U+044A", "U+044B", "U+044C", "U+044D", "U+044E", "U+044F", "U+0450", "U+0451",
     "U+0452", "U+0453", "U+0454", "U+0455", "U+0456", "U+0457", "U+0458", "U+0459", "U+045A", "U+045B", "U+045C", "U+045D",
     "U+045E", "U+045F", "U+0461", "U+0463", "U+0465", "U+0467", "U+0469", "U+046B", "U+046D", "U+046F", "U+0471", "U+0473",
     "U+0475", "U+0477", "U+0479", "U+047B", "U+047D", "U+047F", "U+0481", "U+048B", "U+048D", "U+048F", "U+0491", "U+0493",
     "U+0495", "U+0497", "U+0499", "U+049B", "U+049D", "U+049F", "U+04A1", "U+04A3", "U+04A5", "U+04A7", "U+04A9", "U+04AB",
     "U+04AD", "U+04AF", "U+04B1", "U+04B3", "U+04B5", "U+04B7", "U+04B9", "U+04BB", "U+04BD", "U+04BF", "U+04C2", "U+04C4",
     "U+04C6", "U+04C8", "U+04CA", "U+04CC", "U+04CE", "U+04CF", "U+04D1", "U+04D3", "U+04D5", "U+04D7", "U+04D9", "U+04DB",
     "U+04DD", "U+04DF", "U+04E1", "U+04E3", "U+04E5", "U+04E7", "U+04E9", "U+04EB", "U+04ED", "U+04EF", "U+04F1", "U+04F3",
     "U+04F5", "U+04F7", "U+04F9", "U+04FB", "U+04FD", "U+04FF", "U+0501", "U+0503", "U+0505", "U+0507", "U+0509", "U+050B",
     "U+050D", "U+050F", "U+0511", "U+0513", "U+0515", "U+0517", "U+0519", "U+051B", "U+051D", "U+051F", "U+0521", "U+0523",
     "U+0525", "U+0527", "U+0529", "U+052B", "U+052D", "U+052F", "U+0561", "U+0562", "U+0563", "U+0564", "U+0565", "U+0566",
     "U+0567", "U+0568", "U+0569", "U+056A", "U+056B", "U+056C", "U+056D", "U+056E", "U+056F", "U+0570", "U+0571", "U+0572",
     "U+0573", "U+0574", "U+0575", "U+0576", "U+0577", "U+0578", "U+0579", "U+057A", "U+057B", "U+057C", "U+057D", "U+057E",
     "U+057F", "U+0580", "U+0581", "U+0582", "U+0583", "U+0584", "U+0585", "U+0586", "U+0587", "U+10D0", "U+10D1", "U+10D2",
     "U+10D3", "U+10D4", "U+10D5", "U+10D6", "U+10D7", "U+10D8", "U+10D9", "U+10DA", "U+10DB", "U+10DC", "U+10DD", "U+10DE",
     "U+10DF", "U+10E0", "U+10E1", "U+10E2", "U+10E3", "U+10E4", "U+10E5", "U+10E6", "U+10E7", "U+10E8", "U+10E9", "U+10EA",
     "U+10EB", "U+10EC", "U+10ED", "U+10EE", "U+10EF", "U+10F0", "U+10F1", "U+10F2", "U+10F3", "U+10F4", "U+10F5", "U+10F6",
     "U+10F7", "U+10F8", "U+10F9", "U+10FA", "U+10FD", "U+10FE", "U+10FF", "U+13F8", "U+13F9", "U+13FA", "U+13FB", "U+13FC",
     "U+13FD", "U+1C80", "U+1C81", "U+1C82", "U+1C83", "U+1C84", "U+1C85", "U+1C86", "U+1C87", "U+1C88", "U+1D79", "U+1D7D",
     "U+1D8E", "U+1E01", "U+1E03", "U+1E05", "U+1E07", "U+1E09", "U+1E0B", "U+1E0D", "U+1E0F", "U+1E11", "U+1E13", "U+1E15",
     "U+1E17", "U+1E19", "U+1E1B", "U+1E1D", "U+1E1F", "U+1E21", "U+1E23", "U+1E25", "U+1E27", "U+1E29", "U+1E2B", "U+1E2D",
     "U+1E2F", "U+1E31", "U+1E33", "U+1E35", "U+1E37", "U+1E39", "U+1E3B", "U+1E3D", "U+1E3F", "U+1E41", "U+1E43", "U+1E45",
     "U+1E47", "U+1E49", "U+1E4B", "U+1E4D", "U+1E4F", "U+1E51", "U+1E53", "U+1E55", "U+1E57", "U+1E59", "U+1E5B", "U+1E5D",
     "U+1E5F", "U+1E61", "U+1E63", "U+1E65", "U+1E67", "U+1E69", "U+1E6B", "U+1E6D", "U+1E6F", "U+1E71", "U+1E73", "U+1E75",
     "U+1E77", "U+1E79", "U+1E7B", "U+1E7D", "U+1E7F", "U+1E81", "U+1E83", "U+1E85", "U+1E87", "U+1E89", "U+1E8B", "U+1E8D",
     "U+1E8F", "U+1E91", "U+1E93", "U+1E95", "U+1E96", "U+1E97", "U+1E98", "U+1E99", "U+1E9A", "U+1E9B", "U+1EA1", "U+1EA3",
     "U+1EA5", "U+1EA7", "U+1EA9", "U+1EAB", "U+1EAD", "U+1EAF", "U+1EB1", "U+1EB3", "U+1EB5", "U+1EB7", "U+1EB9", "U+1EBB",
     "U+1EBD", "U+1EBF", "U+1EC1", "U+1EC3", "U+1EC5", "U+1EC7", "U+1EC9", "U+1ECB", "U+1ECD", "U+1ECF", "U+1ED1", "U+1ED3",
     "U+1ED5", "U+1ED7", "U+1ED9", "U+1EDB", "U+1EDD", "U+1EDF", "U+1EE1", "U+1EE3", "U+1EE5", "U+1EE7", "U+1EE9", "U+1EEB",
     "U+1EED", "U+1EEF", "U+1EF1", "U+1EF3", "U+1EF5", "U+1EF7", "U+1EF9", "U+1EFB", "U+1EFD", "U+1EFF", "U+1F00", "U+1F01",
     "U+1F02", "U+1F03", "U+1F04", "U+1F05", "U+1F06", "U+1F07", "U+1F10", "U+1F11", "U+1F12", "U+1F13", "U+1F14", "U+1F15",
     "U+1F20", "U+1F21", "U+1F22", "U+1F23", "U+1F24", "U+1F25", "U+1F26", "U+1F27", "U+1F30", "U+1F31", "U+1F32", "U+1F33",
     "U+1F34", "U+1F35", "U+1F36", "U+1F37", "U+1F40", "U+1F41", "U+1F42", "U+1F43", "U+1F44", "U+1F45", "U+1F50", "U+1F51",
     "U+1F52", "U+1F53", "U+1F54", "U+1F55", "U+1F56", "U+1F57", "U+1F60", "U+1F61", "U+1F62", "U+1F63", "U+1F64", "U+1F65",
     "U+1F66", "U+1F67", "U+1F70", "U+1F71", "U+1F72", "U+1F73", "U+1F74", "U+1F75", "U+1F76", "U+1F77", "U+1F78", "U+1F79",
     "U+1F7A", "U+1F7B", "U+1F7C", "U+1F7D", "U+1F80", "U+1F81", "U+1F82", "U+1F83", "U+1F84", "U+1F85", "U+1F86", "U+1F87",
     "U+1F88", "U+1F89", "U+1F8A", "U+1F8B", "U+1F8C", "U+1F8D", "U+1F8E", "U+1F8F", "U+1F90", "U+1F91", "U+1F92", "U+1F93",
     "U+1F94", "U+1F95", "U+1F96", "U+1F97", "U+1F98", "U+1F99", "U+1F9A", "U+1F9B", "U+1F9C", "U+1F9D", "U+1F9E", "U+1F9F",
     "U+1FA0", "U+1FA1", "U+1FA2", "U+1FA3", "U+1FA4", "U+1FA5", "U+1FA6", "U+1FA7", "U+1FA8", "U+1FA9", "U+1FAA", "U+1FAB",
     "U+1FAC", "U+1FAD", "U+1FAE", "U+1FAF", "U+1FB0", "U+1FB1", "U+1FB2", "U+1FB3", "U+1FB4", "U+1FB6", "U+1FB7", "U+1FBC",
     "U+1FBE", "U+1FC2", "U+1FC3", "U+1FC4", "U+1FC6", "U+1FC7", "U+1FCC", "U+1FD0", "U+1FD1", "U+1FD2", "U+1FD3", "U+1FD6",
     "U+1FD7", "U+1FE0", "U+1FE1", "U+1FE2", "U+1FE3", "U+1FE4", "U+1FE5", "U+1FE6", "U+1FE7", "U+1FF2", "U+1FF3", "U+1FF4",
     "U+1FF6", "U+1FF7", "U+1FFC", "U+214E", "U+2170", "U+2171", "U+2172", "U+2173", "U+2174", "U+2175", "U+2176", "U+2177",
     "U+2178", "U+2179", "U+217A", "U+217B", "U+217C", "U+217D", "U+217E", "U+217F", "U+2184", "U+24D0", "U+24D1", "U+24D2",
     "U+24D3", "U+24D4", "U+24D5", "U+24D6", "U+24D7", "U+24D8", "U+24D9", "U+24DA", "U+24DB", "U+24DC", "U+24DD", "U+24DE",
     "U+24DF", "U+24E0", "U+24E1", "U+24E2", "U+24E3", "U+24E4", "U+24E5", "U+24E6", "U+24E7", "U+24E8", "U+24E9", "U+2C30",
     "U+2C31", "U+2C32", "U+2C33", "U+2C34", "U+2C35", "U+2C36", "U+2C37", "U+2C38", "U+2C39", "U+2C3A", "U+2C3B", "U+2C3C",
     "U+2C3D", "U+2C3E", "U+2C3F", "U+2C40", "U+2C41", "U+2C42", "U+2C43", "U+2C44", "U+2C45", "U+2C46", "U+2C47", "U+2C48",
     "U+2C49", "U+2C4A", "U+2C4B", "U+2C4C", "U+2C4D", "U+2C4E", "U+2C4F", "U+2C50", "U+2C51", "U+2C52", "U+2C53", "U+2C54",
     "U+2C55", "U+2C56", "U+2C57", "U+2C58", "U+2C59", "U+2C5A", "U+2C5B", "U+2C5C", "U+2C5D", "U+2C5E", "U+2C5F", "U+2C61",
     "U+2C65", "U+2C66", "U+2C68", "U+2C6A", "U+2C6C", "U+2C73", "U+2C76", "U+2C81", "U+2C83", "U+2C85", "U+2C87", "U+2C89",
     "U+2C8B", "U+2C8D", "U+2C8F", "U+2C91", "U+2C93", "U+2C95", "U+2C97", "U+2C99", "U+2C9B", "U+2C9D", "U+2C9F", "U+2CA1",
     "U+2CA3", "U+2CA5", "U+2CA7", "U+2CA9", "U+2CAB", "U+2CAD", "U+2CAF", "U+2CB1", "U+2CB3", "U+2CB5", "U+2CB7", "U+2CB9",
     "U+2CBB", "U+2CBD", "U+2CBF", "U+2CC1", "U+2CC3", "U+2CC5", "U+2CC7", "U+2CC9", "U+2CCB", "U+2CCD", "U+2CCF", "U+2CD1",
     "U+2CD3", "U+2CD5", "U+2CD7", "U+2CD9", "U+2CDB", "U+2CDD", "U+2CDF", "U+2CE1", "U+2CE3", "U+2CEC", "U+2CEE", "U+2CF3",
     "U+2D00", "U+2D01", "U+2D02", "U+2D03", "U+2D04", "U+2D05", "U+2D06", "U+2D07", "U+2D08", "U+2D09", "U+2D0A", "U+2D0B",
     "U+2D0C", "U+2D0D", "U+2D0E", "U+2D0F", "U+2D10", "U+2D11", "U+2D12", "U+2D13", "U+2D14", "U+2D15", "U+2D16", "U+2D17",
     "U+2D18", "U+2D19", "U+2D1A", "U+2D1B", "U+2D1C", "U+2D1D", "U+2D1E", "U+2D1F", "U+2D20", "U+2D21", "U+2D22", "U+2D23",
     "U+2D24", "U+2D25", "U+2D27", "U+2D2D", "U+A641", "U+A643", "U+A645", "U+A647", "U+A649", "U+A64B", "U+A64D", "U+A64F",
     "U+A651", "U+A653", "U+A655", "U+A657", "U+A659", "U+A65B", "U+A65D", "U+A65F", "U+A661", "U+A663", "U+A665", "U+A667",
     "U+A669", "U+A66B", "U+A66D", "U+A681", "U+A683", "U+A685", "U+A687", "U+A689", "U+A68B", "U+A68D", "U+A68F", "U+A691",
     "U+A693", "U+A695", "U+A697", "U+A699", "U+A69B", "U+A723", "U+A725", "U+A727", "U+A729", "U+A72B", "U+A72D", "U+A72F",
     "U+A733", "U+A735", "U+A737", "U+A739", "U+A73B", "U+A73D", "U+A73F", "U+A741", "U+A743", "U+A745", "U+A747", "U+A749",
     "U+A74B", "U+A74D", "U+A74F", "U+A751", "U+A753", "U+A755", "U+A757", "U+A759", "U+A75B", "U+A75D", "U+A75F", "U+A761",
     "U+A763", "U+A765", "U+A767", "U+A769", "U+A76B", "U+A76D", "U+A76F", "U+A77A", "U+A77C", "U+A77F", "U+A781", "U+A783",
     "U+A785", "U+A787", "U+A78C", "U+A791", "U+A793", "U+A794", "U+A797", "U+A799", "U+A79B", "U+A79D", "U+A79F", "U+A7A1",
     "U+A7A3", "U+A7A5", "U+A7A7", "U+A7A9", "U+A7B5", "U+A7B7", "U+A7B9", "U+A7BB", "U+A7BD", "U+A7BF", "U+A7C1", "U+A7C3",
     "U+A7C8", "U+A7CA", "U+A7D1", "U+A7D7", "U+A7D9", "U+A7F6", "U+AB53", "U+AB70", "U+AB71", "U+AB72", "U+AB73", "U+AB74",
     "U+AB75", "U+AB76", "U+AB77", "U+AB78", "U+AB79", "U+AB7A", "U+AB7B", "U+AB7C", "U+AB7D", "U+AB7E", "U+AB7F", "U+AB80",
     "U+AB81", "U+AB82", "U+AB83", "U+AB84", "U+AB85", "U+AB86", "U+AB87", "U+AB88", "U+AB89", "U+AB8A", "U+AB8B", "U+AB8C",
     "U+AB8D", "U+AB8E", "U+AB8F", "U+AB90", "U+AB91", "U+AB92", "U+AB93", "U+AB94", "U+AB95", "U+AB96", "U+AB97", "U+AB98",
     "U+AB99", "U+AB9A", "U+AB9B", "U+AB9C", "U+AB9D", "U+AB9E", "U+AB9F", "U+ABA0", "U+ABA1", "U+ABA2", "U+ABA3", "U+ABA4",
     "U+ABA5", "U+ABA6", "U+ABA7", "U+ABA8", "U+ABA9", "U+ABAA", "U+ABAB", "U+ABAC", "U+ABAD", "U+ABAE", "U+ABAF", "U+ABB0",
     "U+ABB1", "U+ABB2", "U+ABB3", "U+ABB4", "U+ABB5", "U+ABB6", "U+ABB7", "U+ABB8", "U+ABB9", "U+ABBA", "U+ABBB", "U+ABBC",
     "U+ABBD", "U+ABBE", "U+ABBF", "U+FB00", "U+FB01", "U+FB02", "U+FB03", "U+FB04", "U+FB05", "U+FB06", "U+FB13", "U+FB14",
     "U+FB15", "U+FB16", "U+FB17", "U+FF41", "U+FF42", "U+FF43", "U+FF44", "U+FF45", "U+FF46", "U+FF47", "U+FF48", "U+FF49",
     "U+FF4A", "U+FF4B", "U+FF4C", "U+FF4D", "U+FF4E", "U+FF4F", "U+FF50", "U+FF51", "U+FF52", "U+FF53", "U+FF54", "U+FF55",
     "U+FF56", "U+FF57", "U+FF58", "U+FF59", "U+FF5A", "U+10428", "U+10429", "U+1042A", "U+1042B", "U+1042C", "U+1042D", "U+1042E",
     "U+1042F", "U+10430", "U+10431", "U+10432", "U+10433", "U+10434", "U+10435", "U+10436", "U+10437", "U+10438", "U+10439", "U+1043A",
     "U+1043B", "U+1043C", "U+1043D", "U+1043E", "U+1043F", "U+10440", "U+10441", "U+10442", "U+10443", "U+10444", "U+10445", "U+10446",
     "U+10447", "U+10448", "U+10449", "U+1044A", "U+1044B", "U+1044C", "U+1044D", "U+1044E", "U+1044F", "U+104D8", "U+104D9", "U+104DA",
     "U+104DB", "U+104DC", "U+104DD", "U+104DE", "U+104DF", "U+104E0", "U+104E1", "U+104E2", "U+104E3", "U+104E4", "U+104E5", "U+104E6",
     "U+104E7", "U+104E8", "U+104E9", "U+104EA", "U+104EB", "U+104EC", "U+104ED", "U+104EE", "U+104EF", "U+104F0", "U+104F1", "U+104F2",
     "U+104F3", "U+104F4", "U+104F5", "U+104F6", "U+104F7", "U+104F8", "U+104F9", "U+104FA", "U+104FB", "U+10597", "U+10598", "U+10599",
     "U+1059A", "U+1059B", "U+1059C", "U+1059D", "U+1059E", "U+1059F", "U+105A0", "U+105A1", "U+105A3", "U+105A4", "U+105A5", "U+105A6",
     "U+105A7", "U+105A8", "U+105A9", "U+105AA", "U+105AB", "U+105AC", "U+105AD", "U+105AE", "U+105AF", "U+105B0", "U+105B1", "U+105B3",
     "U+105B4", "U+105B5", "U+105B6", "U+105B7", "U+105B8", "U+105B9", "U+105BB", "U+105BC", "U+10CC0", "U+10CC1", "U+10CC2", "U+10CC3",
     "U+10CC4", "U+10CC5", "U+10CC6", "U+10CC7", "U+10CC8", "U+10CC9", "U+10CCA", "U+10CCB", "U+10CCC", "U+10CCD", "U+10CCE", "U+10CCF",
     "U+10CD0", "U+10CD1", "U+10CD2", "U+10CD3", "U+10CD4", "U+10CD5", "U+10CD6", "U+10CD7", "U+10CD8", "U+10CD9", "U+10CDA", "U+10CDB",
     "U+10CDC", "U+10CDD", "U+10CDE", "U+10CDF", "U+10CE0", "U+10CE1", "U+10CE2", "U+10CE3", "U+10CE4", "U+10CE5", "U+10CE6", "U+10CE7",
     "U+10CE8", "U+10CE9", "U+10CEA", "U+10CEB", "U+10CEC", "U+10CED", "U+10CEE", "U+10CEF", "U+10CF0", "U+10CF1", "U+10CF2", "U+118C0",
     "U+118C1", "U+118C2", "U+118C3", "U+118C4", "U+118C5", "U+118C6", "U+118C7", "U+118C8", "U+118C9", "U+118CA", "U+118CB", "U+118CC",
     "U+118CD", "U+118CE", "U+118CF", "U+118D0", "U+118D1", "U+118D2", "U+118D3", "U+118D4", "U+118D5", "U+118D6", "U+118D7", "U+118D8",
     "U+118D9", "U+118DA", "U+118DB", "U+118DC", "U+118DD", "U+118DE", "U+118DF", "U+16E60", "U+16E61", "U+16E62", "U+16E63", "U+16E64",
     "U+16E65", "U+16E66", "U+16E67", "U+16E68", "U+16E69", "U+16E6A", "U+16E6B", "U+16E6C", "U+16E6D", "U+16E6E", "U+16E6F", "U+16E70",
     "U+16E71", "U+16E72", "U+16E73", "U+16E74", "U+16E75", "U+16E76", "U+16E77", "U+16E78", "U+16E79", "U+16E7A", "U+16E7B", "U+16E7C",
     "U+16E7D", "U+16E7E", "U+16E7F", "U+1E922", "U+1E923", "U+1E924", "U+1E925", "U+1E926", "U+1E927", "U+1E928", "U+1E929", "U+1E92A",
     "U+1E92B", "U+1E92C", "U+1E92D", "U+1E92E", "U+1E92F", "U+1E930", "U+1E931", "U+1E932", "U+1E933", "U+1E934", "U+1E935", "U+1E936",
     "U+1E937", "U+1E938", "U+1E939", "U+1E93A", "U+1E93B", "U+1E93C", "U+1E93D", "U+1E93E", "U+1E93F", "U+1E940", "U+1E941", "U+1E942",
     "U+1E943">>

\* what str.upper() makes of each of them: one character, or two or three
\* (sharp s gives SS); here the first
UpperTo ==
    <<"A", "B", "C", "D", "E", "F", "G", "H", "I", "J", "K", "L",
     "M", "N", "O", "P", "Q", "R", "S", "T", "U", "V", "W", "X",
     "Y", "Z", "U+039C", "S", "À", "Á", "Â", "Ã", "Ä", "Å", "Æ", "Ç",
     "È", "É", "Ê", "Ë", "Ì", "Í", "Î", "Ï", "Ð", "Ñ", "Ò", "Ó",
     "Ô", "Õ", "Ö", "Ø", "Ù", "Ú", "Û", "Ü", "Ý", "Þ", "U+0178", "U+0100",
     "U+0102", "U+0104", "U+0106", "U+0108", "U+010A", "U+010C", "U+010E", "U+0110", "U+0112", "U+0114", "U+0116", "U+0118",
     "U+011A", "U+011C", "U+011E", "U+0120", "U+0122", "U+0124", "U+0126", "U+0128", "U+012A", "U+012C", "U+012E", "I",
     "U+0132", "U+0134", "U+0136", "U+0139", "U+013B", "U+013D", "U+013F", "U+0141", "U+0143", "U+0145", "U+0147", "U+02BC",
     "U+014A", "U+014C", "U+014E", "U+0150", "U+0152", "U+0154", "U+0156", "U+0158", "U+015A", "U+015C", "U+015E", "U+0160",
     "U+0162", "U+0164", "U+0166", "U+0168", "U+016A", "U+016C", "U+016E", "U+0170", "U+0172", "U+0174", "U+0176", "U+0179",
     "U+017B", "U+017D", "S", "U+0243", "U+0182", "U+0184", "U+0187", "U+018B", "U+0191", "U+01F6", "U+0198", "U+023D",
     "U+0220", "U+01A0", "U+01A2", "U+01A4", "U+01A7", "U+01AC", "U+01AF", "U+01B3", "U+01B5", "U+01B8", "U+01BC", "U+01F7",
     "U+01C4", "U+01C4", "U+01C7", "U+01C7", "U+01CA", "U+01CA", "U+01CD", "U+01CF", "U+01D1", "U+01D3", "U+01D5", "U+01D7",
     "U+01D9", "U+01DB", "U+018E", "U+01DE", "U+01E0", "U+01E2", "U+01E4", "U+01E6", "U+01E8", "U+01EA", "U+01EC", "U+01EE",
     "J", "U+01F1", "U+01F1", "U+01F4", "U+01F8", "U+01FA", "U+01FC", "U+01FE", "U+0200", "U+0202", "U+0204", "U+0206",
     "U+0208", "U+020A", "U+020C", "U+020E", "U+0210", "U+0212", "U+0214", "U+0216", "U+0218", "U+021A", "U+021C", "U+021E",
     "U+0222", "U+0224", "U+0226", "U+0228", "U+022A", "U+022C", "U+022E", "U+0230", "U+0232", "U+023B", "U+2C7E", "U+2C7F",
     "U+0241", "U+0246", "U+0248", "U+024A", "U+024C", "U+024E", "U+2C6F", "U+2C6D", "U+2C70", "U+0181", "U+0186", "U+0189",
     "U+018A", "U+018F", "U+0190", "U+A7AB", "U+0193", "U+A7AC", "U+0194", "U+A78D", "U+A7AA", "U+0197", "U+0196", "U+A7AE",
     "U+2C62", "U+A7AD", "U+019C", "U+2C6E", "U+019D", "U+019F", "U+2C64", "U+01A6", "U+A7C5", "U+01A9", "U+A7B1", "U+01AE",
     "U+0244", "U+01B1", "U+01B2", "U+0245", "U+01B7", "U+A7B2", "U+A7B0", "U+0399", "U+0370", "U+0372", "U+0376", "U+03FD",
     "U+03FE", "U+03FF", "U+0399", "U+0386", "U+0388", "U+0389", "U+038A", "U+03A5", "U+0391", "U+0392", "U+0393", "U+0394",
     "U+0395", "U+0396", "U+0397", "U+0398", "U+0399", "U+039A", "U+039B", "U+039C", "U+039D", "U+039E", "U+039F", "U+03A0",
     "U+03A1", "U+03A3", "U+03A3", "U+03A4", "U+03A5", "U+03A6", "U+03A7", "U+03A8", "U+03A9", "U+03AA", "U+03AB", "U+038C",
     "U+038E", "U+038F", "U+0392", "U+0398", "U+03A6", "U+03A0", "U+03CF", "U+03D8", "U+03DA", "U+03DC", "U+03DE", "U+03E0",
     "U+03E2", "U+03E4", "U+03E6", "U+03E8", "U+03EA", "U+03EC", "U+03EE", "U+039A", "U+03A1", "U+03F9", "U+037F", "U+0395",
     "U+03F7", "U+03FA", "U+0410", "U+0411", "U+0412", "U+0413", "U+0414", "U+0415", "U+0416", "U+0417", "U+0418", "U+0419",
     "U+041A", "U+041B", "U+041C", "U+041D", "U+041E", "U+041F", "U+0420", "U+0421", "U+0422", "U+0423", "U+0424", "U+0425",
     "U+0426", "U+0427", "U+0428", "U+0429", "U+042A", "U+042B", "U+042C", "U+042D", "U+042E", "U+042F", "U+0400", "U+0401",
     "U+0402", "U+0403", "U+0404", "U+0405", "U+0406", "U+0407", "U+0408", "U+0409", "U+040A", "U+040B", "U+040C", "U+040D",
     "U+040E", "U+040F", "U+0460", "U+0462", "U+0464", "U+0466", "U+0468", "U+046A", "U+046C", "U+046E", "U+0470", "U+0472",
     "U+0474", "U+0476", "U+0478", "U+047A", "U+047C", "U+047E", "U+0480", "U+048A", "U+048C", "U+048E", "U+0490", "U+0492",
     "U+0494", "U+0496", "U+0498", "U+049A", "U+049C", "U+049E", "U+04A0", "U+04A2", "U+04A4", "U+04A6", "U+04A8", "U+04AA",
     "U+04AC", "U+04AE", "U+04B0", "U+04B2", "U+04B4", "U+04B6", "U+04B8", "U+04BA", "U+04BC", "U+04BE", "U+04C1", "U+04C3",
     "U+04C5", "U+04C7", "U+04C9", "U+04CB", "U+04CD", "U+04C0", "U+04D0", "U+04D2", "U+04D4", "U+04D6", "U+04D8", "U+04DA",
     "U+04DC", "U+04DE", "U+04E0", "U+04E2", "U+04E4", "U+04E6", "U+04E8", "U+04EA", "U+04EC", "U+04EE", "U+04F0", "U+04F2",
     "U+04F4", "U+04F6", "U+04F8", "U+04FA", "U+04FC", "U+04FE", "U+0500", "U+0502", "U+0504", "U+0506", "U+0508", "U+050A",
     "U+050C", "U+050E", "U+0510", "U+0512", "U+0514", "U+0516", "U+0518", "U+051A", "U+051C", "U+051E", "U+0520", "U+0522",
     "U+0524", "U+0526", "U+0528", "U+052A", "U+052C", "U+052E", "U+0531", "U+0532", "U+0533", "U+0534", "U+0535", "U+0536",
     "U+0537", "U+0538", "U+0539", "U+053A", "U+053B", "U+053C", "U+053D", "U+053E", "U+053F", "U+0540", "U+0541", "U+0542",
     "U+0543", "U+0544", "U+0545", "U+0546", "U+0547", "U+0548", "U+0549", "U+054A", "U+054B", "U+054C", "U+054D", "U+054E",
     "U+054F", "U+0550", "U+0551", "U+0552", "U+0553", "U+0554", "U+0555", "U+0556", "U+0535", "U+1C90", "U+1C91", "U+1C92",
     "U+1C93", "U+1C94", "U+1C95", "U+1C96", "U+1C97", "U+1C98", "U+1C99", "U+1C9A", "U+1C9B", "U+1C9C", "U+1C9D", "U+1C9E",
     "U+1C9F", "U+1CA0", "U+1CA1", "U+1CA2", "U+1CA3", "U+1CA4", "U+1CA5", "U+1CA6", "U+1CA7", "U+1CA8", "U+1CA9", "U+1CAA",
     "U+1CAB", "U+1CAC", "U+1CAD", "U+1CAE", "U+1CAF", "U+1CB0", "U+1CB1", "U+1CB2", "U+1CB3", "U+1CB4", "U+1CB5", "U+1CB6",
     "U+1CB7", "U+1CB8", "U+1CB9", "U+1CBA", "U+1CBD", "U+1CBE", "U+1CBF", "U+13F0", "U+13F1", "U+13F2", "U+13F3", "U+13F4",
     "U+13F5", "U+0412", "U+0414", "U+041E", "U+0421", "U+0422", "U+0422", "U+042A", "U+0462", "U+A64A", "U+A77D", "U+2C63",
     "U+A7C6", "U+1E00", "U+1E02", "U+1E04", "U+1E06", "U+1E08", "U+1E0A", "U+1E0C", "U+1E0E", "U+1E10", "U+1E12", "U+1E14",
     "U+1E16", "U+1E18", "U+1E1A", "U+1E1C", "U+1E1E", "U+1E20", "U+1E22", "U+1E24", "U+1E26", "U+1E28", "U+1E2A", "U+1E2C",
     "U+1E2E", "U+1E30", "U+1E32", "U+1E34", "U+1E36", "U+1E38", "U+1E3A", "U+1E3C", "U+1E3E", "U+1E40", "U+1E42", "U+1E44",
     "U+1E46", "U+1E48", "U+1E4A", "U+1E4C", "U+1E4E", "U+1E50", "U+1E52", "U+1E54", "U+1E56", "U+1E58", "U+1E5A", "U+1E5C",
     "U+1E5E", "U+1E60", "U+1E62", "U+1E64", "U+1E66", "U+1E68", "U+1E6A", "U+1E6C", "U+1E6E", "U+1E70", "U+1E72", "U+1E74",
     "U+1E76", "U+1E78", "U+1E7A", "U+1E7C", "U+1E7E", "U+1E80", "U+1E82", "U+1E84", "U+1E86", "U+1E88", "U+1E8A", "U+1E8C",
     "U+1E8E", "U+1E90", "U+1E92", "U+1E94", "H", "T", "W", "Y", "A", "U+1E60", "U+1EA0", "U+1EA2",
     "U+1EA4", "U+1EA6", "U+1EA8", "U+1EAA", "U+1EAC", "U+1EAE", "U+1EB0", "U+1EB2", "U+1EB4", "U+1EB6", "U+1EB8", "U+1EBA",
     "U+1EBC", "U+1EBE", "U+1EC0", "U+1EC2", "U+1EC4", "U+1EC6", "U+1EC8", "U+1ECA", "U+1ECC", "U+1ECE", "U+1ED0", "U+1ED2",
     "U+1ED4", "U+1ED6", "U+1ED8", "U+1EDA", "U+1EDC", "U+1EDE", "U+1EE0", "U+1EE2", "U+1EE4", "U+1EE6", "U+1EE8", "U+1EEA",
     "U+1EEC", "U+1EEE", "U+1EF0", "U+1EF2", "U+1EF4", "U+1EF6", "U+1EF8", "U+1EFA", "U+1EFC", "U+1EFE", "U+1F08", "U+1F09",
     "U+1F0A", "U+1F0B", "U+1F0C", "U+1F0D", "U+1F0E", "U+1F0F", "U+1F18", "U+1F19", "U+1F1A", "U+1F1B", "U+1F1C", "U+1F1D",
     "U+1F28", "U+1F29", "U+1F2A", "U+1F2B", "U+1F2C", "U+1F2D", "U+1F2E", "U+1F2F", "U+1F38", "U+1F39", "U+1F3A", "U+1F3B",
     "U+1F3C", "U+1F3D", "U+1F3E", "U+1F3F", "U+1F48", "U+1F49", "U+1F4A", "U+1F4B", "U+1F4C", "U+1F4D", "U+03A5", "U+1F59",
     "U+03A5", "U+1F5B", "U+03A5", "U+1F5D", "U+03A5", "U+1F5F", "U+1F68", "U+1F69", "U+1F6A", "U+1F6B", "U+1F6C", "U+1F6D",
     "U+1F6E", "U+1F6F", "U+1FBA", "U+1FBB", "U+1FC8", "U+1FC9", "U+1FCA", "U+1FCB", "U+1FDA", "U+1FDB", "U+1FF8", "U+1FF9",
     "U+1FEA", "U+1FEB", "U+1FFA", "U+1FFB", "U+1F08", "U+1F09", "U+1F0A", "U+1F0B", "U+1F0C", "U+1F0D", "U+1F0E", "U+1F0F",
     "U+1F08", "U+1F09", "U+1F0A", "U+1F0B", "U+1F0C", "U+1F0D", "U+1F0E", "U+1F0F", "U+1F28", "U+1F29", "U+1F2A", "U+1F2B",
     "U+1F2C", "U+1F2D", "U+1F2E", "U+1F2F", "U+1F28", "U+1F29", "U+1F2A", "U+1F2B", "U+1F2C", "U+1F2D", "U+1F2E", "U+1F2F",
     "U+1F68", "U+1F69", "U+1F6A", "U+1F6B", "U+1F6C", "U+1F6D", "U+1F6E", "U+1F6F", "U+1F68", "U+1F69", "U+1F6A", "U+1F6B",
     "U+1F6C", "U+1F6D", "U+1F6E", "U+1F6F", "U+1FB8", "U+1FB9", "U+1FBA", "U+0391", "U+0386", "U+0391", "U+0391", "U+0391",
     "U+0399", "U+1FCA", "U+0397", "U+0389", "U+0397", "U+0397", "U+0397", "U+1FD8", "U+1FD9", "U+0399", "U+0399", "U+0399",
     "U+0399", "U+1FE8", "U+1FE9", "U+03A5", "U+03A5", "U+03A1", "U+1FEC", "U+03A5", "U+03A5", "U+1FFA", "U+03A9", "U+038F",
     "U+03A9", "U+03A9", "U+03A9", "U+2132", "U+2160", "U+2161", "U+2162", "U+2163", "U+2164", "U+2165", "U+2166", "U+2167",
     "U+2168", "U+2169", "U+216A", "U+216B", "U+216C", "U+216D", "U+216E", "U+216F", "U+2183", "U+24B6", "U+24B7", "U+24B8",
     "U+24B9", "U+24BA", "U+24BB", "U+24BC", "U+24BD", "U+24BE", "U+24BF", "U+24C0", "U+24C1", "U+24C2", "U+24C3", "U+24C4",
     "U+24C5", "U+24C6", "U+24C7", "U+24C8", "U+24C9", "U+24CA", "U+24CB", "U+24CC", "U+24CD", "U+24CE", "U+24CF", "U+2C00",
     "U+2C01", "U+2C02", "U+2C03", "U+2C04", "U+2C05", "U+2C06", "U+2C07", "U+2C08", "U+2C09", "U+2C0A", "U+2C0B", "U+2C0C",
     "U+2C0D", "U+2C0E", "U+2C0F", "U+2C10", "U+2C11", "U+2C12", "U+2C13", "U+2C14", "U+2C15", "U+2C16", "U+2C17", "U+2C18",
     "U+2C19", "U+2C1A", "U+2C1B", "U+2C1C", "U+2C1D", "U+2C1E", "U+2C1F", "U+2C20", "U+2C21", "U+2C22", "U+2C23", "U+2C24",
     "U+2C25", "U+2C26", "U+2C27", "U+2C28", "U+2C29", "U+2C2A", "U+2C2B", "U+2C2C", "U+2C2D", "U+2C2E", "U+2C2F", "U+2C60",
     "U+023A", "U+023E", "U+2C67", "U+2C69", "U+2C6B", "U+2C72", "U+2C75", "U+2C80", "U+2C82", "U+2C84", "U+2C86", "U+2C88",
     "U+2C8A", "U+2C8C", "U+2C8E", "U+2C90", "U+2C92", "U+2C94", "U+2C96", "U+2C98", "U+2C9A", "U+2C9C", "U+2C9E", "U+2CA0",
     "U+2CA2", "U+2CA4", "U+2CA6", "U+2CA8", "U+2CAA", "U+2CAC", "U+2CAE", "U+2CB0", "U+2CB2", "U+2CB4", "U+2CB6", "U+2CB8",
     "U+2CBA", "U+2CBC", "U+2CBE", "U+2CC0", "U+2CC2", "U+2CC4", "U+2CC6", "U+2CC8", "U+2CCA", "U+2CCC", "U+2CCE", "U+2CD0",
     "U+2CD2", "U+2CD4", "U+2CD6", "U+2CD8", "U+2CDA", "U+2CDC", "U+2CDE", "U+2CE0", "U+2CE2", "U+2CEB", "U+2CED", "U+2CF2",
     "U+10A0", "U+10A1", "U+10A2", "U+10A3", "U+10A4", "U+10A5", "U+10A6", "U+10A7", "U+10A8", "U+10A9", "U+10AA", "U+10AB",
     "U+10AC", "U+10AD", "U+10AE", "U+10AF", "U+10B0", "U+10B1", "U+10B2", "U+10B3", "U+10B4", "U+10B5", "U+10B6", "U+10B7",
     "U+10B8", "U+10B9", "U+10BA", "U+10BB", "U+10BC", "U+10BD", "U+10BE", "U+10BF", "U+10C0", "U+10C1", "U+10C2", "U+10C3",
     "U+10C4", "U+10C5", "U+10C7", "U+10CD", "U+A640", "U+A642", "U+A644", "U+A646", "U+A648", "U+A64A", "U+A64C", "U+A64E",
     "U+A650", "U+A652", "U+A654", "U+A656", "U+A658", "U+A65A", "U+A65C", "U+A65E", "U+A660", "U+A662", "U+A664", "U+A666",
     "U+A668", "U+A66A", "U+A66C", "U+A680", "U+A682", "U+A684", "U+A686", "U+A688", "U+A68A", "U+A68C", "U+A68E", "U+A690",
     "U+A692", "U+A694", "U+A696", "U+A698", "U+A69A", "U+A722", "U+A724", "U+A726", "U+A728", "U+A72A", "U+A72C", "U+A72E",
     "U+A732", "U+A734", "U+A736", "U+A738", "U+A73A", "U+A73C", "U+A73E", "U+A740", "U+A742", "U+A744", "U+A746", "U+A748",
     "U+A74A", "U+A74C", "U+A74E", "U+A750", "U+A752", "U+A754", "U+A756", "U+A758", "U+A75A", "U+A75C", "U+A75E", "U+A760",
     "U+A762", "U+A764", "U+A766", "U+A768", "U+A76A", "U+A76C", "U+A76E", "U+A779", "U+A77B", "U+A77E", "U+A780", "U+A782",
     "U+A784", "U+A786", "U+A78B", "U+A790", "U+A792", "U+A7C4", "U+A796", "U+A798", "U+A79A", "U+A79C", "U+A79E", "U+A7A0",
     "U+A7A2", "U+A7A4", "U+A7A6", "U+A7A8", "U+A7B4", "U+A7B6", "U+A7B8", "U+A7BA", "U+A7BC", "U+A7BE", "U+A7C0", "U+A7C2",
     "U+A7C7", "U+A7C9", "U+A7D0", "U+A7D6", "U+A7D8", "U+A7F5", "U+A7B3", "U+13A0", "U+13A1", "U+13A2", "U+13A3", "U+13A4",
     "U+13A5", "U+13A6", "U+13A7", "U+13A8", "U+13A9", "U+13AA", "U+13AB", "U+13AC", "U+13AD", "U+13AE", "U+13AF", "U+13B0",
     "U+13B1", "U+13B2", "U+13B3", "U+13B4", "U+13B5", "U+13B6", "U+13B7", "U+13B8", "U+13B9", "U+13BA", "U+13BB", "U+13BC",
     "U+13BD", "U+13BE", "U+13BF", "U+13C0", "U+13C1", "U+13C2", "U+13C3", "U+13C4", "U+13C5", "U+13C6", "U+13C7", "U+13C8",
     "U+13C9", "U+13CA", "U+13CB", "U+13CC", "U+13CD", "U+13CE", "U+13CF", "U+13D0", "U+13D1", "U+13D2", "U+13D3", "U+13D4",
     "U+13D5", "U+13D6", "U+13D7", "U+13D8", "U+13D9", "U+13DA", "U+13DB", "U+13DC", "U+13DD", "U+13DE", "U+13DF", "U+13E0",
     "U+13E1", "U+13E2", "U+13E3", "U+13E4", "U+13E5", "U+13E6", "U+13E7", "U+13E8", "U+13E9", "U+13EA", "U+13EB", "U+13EC",
     "U+13ED", "U+13EE", "U+13EF", "F", "F", "F", "F", "F", "S", "S", "U+0544", "U+0544",
     "U+0544", "U+054E", "U+0544", "U+FF21", "U+FF22", "U+FF23", "U+FF24", "U+FF25", "U+FF26", "U+FF27", "U+FF28", "U+FF29",
     "U+FF2A", "U+FF2B", "U+FF2C", "U+FF2D", "U+FF2E", "U+FF2F", "U+FF30", "U+FF31", "U+FF32", "U+FF33", "U+FF34", "U+FF35",
     "U+FF36", "U+FF37", "U+FF38", "U+FF39", "U+FF3A", "U+10400", "U+10401", "U+10402", "U+10403", "U+10404", "U+10405", "U+10406",
     "U+10407", "U+10408", "U+10409", "U+1040A", "U+1040B", "U+1040C", "U+1040D", "U+1040E", "U+1040F", "U+10410", "U+10411", "U+10412",
     "U+10413", "U+10414", "U+10415", "U+10416", "U+10417", "U+10418", "U+10419", "U+1041A", "U+1041B", "U+1041C", "U+1041D", "U+1041E",
     "U+1041F", "U+10420", "U+10421", "U+10422", "U+10423", "U+10424", "U+10425", "U+10426", "U+10427", "U+104B0", "U+104B1", "U+104B2",
     "U+104B3", "U+104B4", "U+104B5", "U+104B6", "U+104B7", "U+104B8", "U+104B9", "U+104BA", "U+104BB", "U+104BC", "U+104BD", "U+104BE",
     "U+104BF", "U+104C0", "U+104C1", "U+104C2", "U+104C3", "U+104C4", "U+104C5", "U+104C6", "U+104C7", "U+104C8", "U+104C9", "U+104CA",
     "U+104CB", "U+104CC", "U+104CD", "U+104CE", "U+104CF", "U+104D0", "U+104D1", "U+104D2", "U+104D3", "U+10570", "U+10571", "U+10572",
     "U+10573", "U+10574", "U+10575", "U+10576", "U+10577", "U+10578", "U+10579", "U+1057A", "U+1057C", "U+1057D", "U+1057E", "U+1057F",
     "U+10580", "U+10581", "U+10582", "U+10583", "U+10584", "U+10585", "U+10586", "U+10587", "U+10588", "U+10589", "U+1058A", "U+1058C",
     "U+1058D", "U+1058E", "U+1058F", "U+10590", "U+10591", "U+10592", "U+10594", "U+10595", "U+10C80", "U+10C81", "U+10C82", "U+10C83",
     "U+10C84", "U+10C85", "U+10C86", "U+10C87", "U+10C88", "U+10C89", "U+10C8A", "U+10C8B", "U+10C8C", "U+10C8D", "U+10C8E", "U+10C8F",
     "U+10C90", "U+10C91", "U+10C92", "U+10C93", "U+10C94", "U+10C95", "U+10C96", "U+10C97", "U+10C98", "U+10C99", "U+10C9A", "U+10C9B",
     "U+10C9C", "U+10C9D", "U+10C9E", "U+10C9F", "U+10CA0", "U+10CA1", "U+10CA2", "U+10CA3", "U+10CA4", "U+10CA5", "U+10CA6", "U+10CA7",
     "U+10CA8", "U+10CA9", "U+10CAA", "U+10CAB", "U+10CAC", "U+10CAD", "U+10CAE", "U+10CAF", "U+10CB0", "U+10CB1", "U+10CB2", "U+118A0",
     "U+118A1", "U+118A2", "U+118A3", "U+118A4", "U+118A5", "U+118A6", "U+118A7", "U+118A8", "U+118A9", "U+118AA", "U+118AB", "U+118AC",
     "U+118AD", "U+118AE", "U+118AF", "U+118B0", "U+118B1", "U+118B2", "U+118B3", "U+118B4", "U+118B5", "U+118B6", "U+118B7", "U+118B8",
     "U+118B9", "U+118BA", "U+118BB", "U+118BC", "U+118BD", "U+118BE", "U+118BF", "U+16E40", "U+16E41", "U+16E42", "U+16E43", "U+16E44",
     "U+16E45", "U+16E46", "U+16E47", "U+16E48", "U+16E49", "U+16E4A", "U+16E4B", "U+16E4C", "U+16E4D", "U+16E4E", "U+16E4F", "U+16E50",
     "U+16E51", "U+16E52", "U+16E53", "U+16E54", "U+16E55", "U+16E56", "U+16E57", "U+16E58", "U+16E59", "U+16E5A", "U+16E5B", "U+16E5C",
     "U+16E5D", "U+16E5E", "U+16E5F", "U+1E900", "U+1E901", "U+1E902", "U+1E903", "U+1E904", "U+1E905", "U+1E906", "U+1E907", "U+1E908",
     "U+1E909", "U+1E90A", "U+1E90B", "U+1E90C", "U+1E90D", "U+1E90E", "U+1E90F", "U+1E910", "U+1E911", "U+1E912", "U+1E913", "U+1E914",
     "U+1E915", "U+1E916", "U+1E917", "U+1E918", "U+1E919", "U+1E91A", "U+1E91B", "U+1E91C", "U+1E91D", "U+1E91E", "U+1E91F", "U+1E920",
     "U+1E921">>

\* the second character str.upper() makes of each of them, "" where it makes one
UpperTo2 ==
    <<"", "", "", "", "", "", "", "", "", "", "", "",
     "", "", "", "", "", "", "", "", "", "", "", "",
     "", "", "", "S", "", "", "", "", "", "", "", "",
     "", "", "", "", "", "", "", "", "", "", "", "",
     "", "", "", "", "", "", "", "", "", "", "", "",
     "", "", "", "", "", "", "", "", "", "", "", "",
     "", "", "", "", "", "", "", "", "", "", "", "",
     "", "", "", "", "", "", "", "", "", "", "", "N",
     "", "", "", "", "", "", "", "", "", "", "", "",
     "", "", "", "", "", "", "", "", "", "", "", "",
     "", "", "", "", "", "", "", "", "", "", "", "",
     "", "", "", "", "", "", "", "", "", "", "", "",
     "", "", "", "", "", "", "", "", "", "", "", "",
     "", "", "", "", "", "", "", "", "", "", "", "",
     "U+030C", "", "", "", "", "", "", "", "", "", "", "",
     "", "", "", "", "", "", "", "", "", "", "", "",
     "", "", "", "", "", "", "", "", "", "", "", "",
     "", "", "", "", "", "", "", "", "", "", "", "",
     "", "", "", "", "", "", "", "", "", "", "", "",
     "", "", "", "", "", "", "", "", "", "", "", "",
     "", "", "", "", "", "", "", "", "", "", "", "",
     "", "", "U+0308", "", "", "", "", "U+0308", "", "", "", "",
     "", "", "", "", "", "", "", "", "", "", "", "",
     "", "", "", "", "", "", "", "", "", "", "", "",
     "", "", "", "", "", "", "", "", "", "", "", "",
     "", "", "", "", "", "", "", "", "", "", "", "",
     "", "", "", "", "", "", "", "", "", "", "", "",
     "", "", "", "", "", "", "", "", "", "", "", "",
     "", "", "", "", "", "", "", "", "", "", "", "",
     "", "", "", "", "", "", "", "", "", "", "", "",
     "", "", "", "", "", "", "", "", "", "", "", "",
     "", "", "", "", "", "", "", "", "", "", "", "",
     "", "", "", "", "", "", "", "", "", "", "", "",
     "", "", "", "", "", "", "", "", "", "", "", "",
     "", "", "", "", "", "", "", "", "", "", "", "",
     "", "", "", "", "", "", "", "", "", "", "", "",
     "", "", "", "", "", "", "", "", "", "", "", "",
     "", "", "", "", "", "", "", "", "", "", "", "",
     "", "", "", "", "", "", "", "", "", "", "", "",
     "", "", "", "", "", "", "", "", "", "", "", "",
     "", "", "", "", "", "", "", "", "", "", "", "",
     "", "", "", "", "", "", "", "", "U+0552", "", "", "",
     "", "", "", "", "", "", "", "", "", "", "", "",
     "", "", "", "", "", "", "", "", "", "", "", "",
     "", "", "", "", "", "", "", "", "", "", "", "",
     "", "", "", "", "", "", "", "", "", "", "", "",
     "", "", "", "", "", "", "", "", "", "", "", "",
     "", "", "", "", "", "", "", "", "", "", "", "",
     "", "", "", "", "", "", "", "", "", "", "", "",
     "", "", "", "", "", "", "", "", "", "", "", "",
     "", "", "", "", "", "", "", "", "", "", "", "",
     "", "", "", "", "", "", "", "", "", "", "", "",
     "", "", "", "", "", "", "", "", "", "", "", "",
     "", "", "", "", "U+0331", "U+0308", "U+030A", "U+030A", "U+02BE", "", "", "",
     "", "", "", "", "", "", "", "", "", "", "", "",
     "", "", "", "", "", "", "", "", "", "", "", "",
     "", "", "", "", "", "", "", "", "", "", "", "",
     "", "", "", "", "", "", "", "", "", "", "", "",
     "", "", "", "", "", "", "", "", "", "", "", "",
     "", "", "", "", "", "", "", "", "", "", "", "",
     "", "", "", "", "", "", "", "", "", "", "U+0313", "",
     "U+0313", "", "U+0313", "", "U+0313", "", "", "", "", "", "", "",
     "", "", "", "", "", "", "", "", "", "", "", "",
     "", "", "", "", "U+0399", "U+0399", "U+0399", "U+0399", "U+0399", "U+0399", "U+0399", "U+0399",
     "U+0399", "U+0399", "U+0399", "U+0399", "U+0399", "U+0399", "U+0399", "U+0399", "U+0399", "U+0399", "U+0399", "U+0399",
     "U+0399", "U+0399", "U+0399", "U+0399", "U+0399", "U+0399", "U+0399", "U+0399", "U+0399", "U+0399", "U+0399", "U+0399",
     "U+0399", "U+0399", "U+0399", "U+0399", "U+0399", "U+0399", "U+0399", "U+0399", "U+0399", "U+0399", "U+0399", "U+0399",
     "U+0399", "U+0399", "U+0399", "U+0399", "", "", "U+0399", "U+0399", "U+0399", "U+0342", "U+0342", "U+0399",
     "", "U+0399", "U+0399", "U+0399", "U+0342", "U+0342", "U+0399", "", "", "U+0308", "U+0308", "U+0342",
     "U+0308", "", "", "U+0308", "U+0308", "U+0313", "", "U+0342", "U+0308", "U+0399", "U+0399", "U+0399",
     "U+0342", "U+0342", "U+0399", "", "", "", "", "", "", "", "", "",
     "", "", "", "", "", "", "", "", "", "", "", "",
     "", "", "", "", "", "", "", "", "", "", "", "",
     "", "", "", "", "", "", "", "", "", "", "", "",
     "", "", "", "", "", "", "", "", "", "", "", "",
     "", "", "", "", "", "", "", "", "", "", "", "",
     "", "", "", "", "", "", "", "", "", "", "", "",
     "", "", "", "", "", "", "", "", "", "", "", "",
     "", "", "", "", "", "", "", "", "", "", "", "",
     "", "", "", "", "", "", "", "", "", "", "", "",
     "", "", "", "", "", "", "", "", "", "", "", "",
     "", "", "", "", "", "", "", "", "", "", "", "",
     "", "", "", "", "", "", "", "", "", "", "", "",
     "", "", "", "", "", "", "", "", "", "", "", "",
     "", "", "", "", "", "", "", "", "", "", "", "",
     "", "", "", "", "", "", "", "", "", "", "", "",
     "", "", "", "", "", "", "", "", "", "", "", "",
     "", "", "", "", "", "", "", "", "", "", "", "",
     "", "", "", "", "", "", "", "", "", "", "", "",
     "", "", "", "", "", "", "", "", "", "", "", "",
     "", "", "", "", "", "", "", "", "", "", "", "",
     "", "", "", "", "", "", "", "", "", "", "", "",
     "", "", "", "", "", "", "", "", "", "", "", "",
     "", "", "", "", "", "", "", "", "", "", "", "",
     "", "", "", "", "", "", "", "", "", "", "", "",
     "", "", "", "", "", "", "", "", "", "", "", "",
     "", "", "", "", "", "", "", "", "", "", "", "",
     "", "", "", "", "", "", "", "", "", "", "", "",
     "", "", "", "", "", "", "", "", "", "", "", "",
     "", "", "", "", "", "", "", "", "", "", "", "",
     "", "", "", "", "", "", "", "", "", "", "", "",
     "", "", "", "", "", "", "", "", "", "", "", "",
     "", "", "", "F", "I", "L", "F", "F", "T", "T", "U+0546", "U+0535",
     "U+053B", "U+0546", "U+053D", "", "", "", "", "", "", "", "", "",
     "", "", "", "", "", "", "", "", "", "", "", "",
     "", "", "", "", "", "", "", "", "", "", "", "",
     "", "", "", "", "", "", "", "", "", "", "", "",
     "", "", "", "", "", "", "", "", "", "", "", "",
     "", "", "", "", "", "", "", "", "", "", "", "",
     "", "", "", "", "", "", "", "", "", "", "", "",
     "", "", "", "", "", "", "", "", "", "", "", "",
     "", "", "", "", "", "", "", "", "", "", "", "",
     "", "", "", "", "", "", "", "", "", "", "", "",
     "", "", "", "", "", "", "", "", "", "", "", "",
     "", "", "", "", "", "", "", "", "", "", "", "",
     "", "", "", "", "", "", "", "", "", "", "", "",
     "", "", "", "", "", "", "", "", "", "", "", "",
     "", "", "", "", "", "", "", "", "", "", "", "",
     "", "", "", "", "", "", "", "", "", "", "", "",
     "", "", "", "", "", "", "", "", "", "", "", "",
     "", "", "", "", "", "", "", "", "", "", "", "",
     "", "", "", "", "", "", "", "", "", "", "", "",
     "", "", "", "", "", "", "", "", "", "", "", "",
     "", "", "", "", "", "", "", "", "", "", "", "",
     "", "", "", "", "", "", "", "", "", "", "", "",
     "", "", "", "", "", "", "", "", "", "", "", "",
     "", "", "", "", "", "", "", "", "", "", "", "",
     "">>

\* the third character, "" where it makes one or two
UpperTo3 ==
    <<"", "", "", "", "", "", "", "", "", "", "", "",
     "", "", "", "", "", "", "", "", "", "", "", "",
     "", "", "", "", "", "", "", "", "", "", "", "",
     "", "", "", "", "", "", "", "", "", "", "", "",
     "", "", "", "", "", "", "", "", "", "", "", "",
     "", "", "", "", "", "", "", "", "", "", "", "",
     "", "", "", "", "", "", "", "", "", "", "", "",
     "", "", "", "", "", "", "", "", "", "", "", "",
     "", "", "", "", "", "", "", "", "", "", "", "",
     "", "", "", "", "", "", "", "", "", "", "", "",
     "", "", "", "", "", "", "", "", "", "", "", "",
     "", "", "", "", "", "", "", "", "", "", "", "",
     "", "", "", "", "", "", "", "", "", "", "", "",
     "", "", "", "", "", "", "", "", "", "", "", "",
     "", "", "", "", "", "", "", "", "", "", "", "",
     "", "", "", "", "", "", "", "", "", "", "", "",
     "", "", "", "", "", "", "", "", "", "", "", "",
     "", "", "", "", "", "", "", "", "", "", "", "",
     "", "", "", "", "", "", "", "", "", "", "", "",
     "", "", "", "", "", "", "", "", "", "", "", "",
     "", "", "", "", "", "", "", "", "", "", "", "",
     "", "", "U+0301", "", "", "", "", "U+0301", "", "", "", "",
     "", "", "", "", "", "", "", "", "", "", "", "",
     "", "", "", "", "", "", "", "", "", "", "", "",
     "", "", "", "", "", "", "", "", "", "", "", "",
     "", "", "", "", "", "", "", "", "", "", "", "",
     "", "", "", "", "", "", "", "", "", "", "", "",
     "", "", "", "", "", "", "", "", "", "", "", "",
     "", "", "", "", "", "", "", "", "", "", "", "",
     "", "", "", "", "", "", "", "", "", "", "", "",
     "", "", "", "", "", "", "", "", "", "", "", "",
     "", "", "", "", "", "", "", "", "", "", "", "",
     "", "", "", "", "", "", "", "", "", "", "", "",
     "", "", "", "", "", "", "", "", "", "", "", "",
     "", "", "", "", "", "", "", "", "", "", "", "",
     "", "", "", "", "", "", "", "", "", "", "", "",
     "", "", "", "", "", "", "", "", "", "", "", "",
     "", "", "", "", "", "", "", "", "", "", "", "",
     "", "", "", "", "", "", "", "", "", "", "", "",
     "", "", "", "", "", "", "", "", "", "", "", "",
     "", "", "", "", "", "", "", "", "", "", "", "",
     "", "", "", "", "", "", "", "", "", "", "", "",
     "", "", "", "", "", "", "", "", "", "", "", "",
     "", "", "", "", "", "", "", "", "", "", "", "",
     "", "", "", "", "", "", "", "", "", "", "", "",
     "", "", "", "", "", "", "", "", "", "", "", "",
     "", "", "", "", "", "", "", "", "", "", "", "",
     "", "", "", "", "", "", "", "", "", "", "", "",
     "", "", "", "", "", "", "", "", "", "", "", "",
     "", "", "", "", "", "", "", "", "", "", "", "",
     "", "", "", "", "", "", "", "", "", "", "", "",
     "", "", "", "", "", "", "", "", "", "", "", "",
     "", "", "", "", "", "", "", "", "", "", "", "",
     "", "", "", "", "", "", "", "", "", "", "", "",
     "", "", "", "", "", "", "", "", "", "", "", "",
     "", "", "", "", "", "", "", "", "", "", "", "",
     "", "", "", "", "", "", "", "", "", "", "", "",
     "", "", "", "", "", "", "", "", "", "", "", "",
     "", "", "", "", "", "", "", "", "", "", "", "",
     "", "", "", "", "", "", "", "", "", "", "", "",
     "", "", "", "", "", "", "", "", "", "", "", "",
     "U+0300", "", "U+0301", "", "U+0342", "", "", "", "", "", "", "",
     "", "", "", "", "", "", "", "", "", "", "", "",
     "", "", "", "", "", "", "", "", "", "", "", "",
     "", "", "", "", "", "", "", "", "", "", "", "",
     "", "", "", "", "", "", "", "", "", "", "", "",
     "", "", "", "", "", "", "", "", "", "", "", "",
     "", "", "", "", "", "", "", "", "", "", "U+0399", "",
     "", "", "", "", "", "U+0399", "", "", "", "U+0300", "U+0301", "",
     "U+0342", "", "", "U+0300", "U+0301", "", "", "", "U+0342", "", "", "",
     "", "U+0399", "", "", "", "", "", "", "", "", "", "",
     "", "", "", "", "", "", "", "", "", "", "", "",
     "", "", "", "", "", "", "", "", "", "", "", "",
     "", "", "", "", "", "", "", "", "", "", "", "",
     "", "", "", "", "", "", "", "", "", "", "", "",
     "", "", "", "", "", "", "", "", "", "", "", "",
     "", "", "", "", "", "", "", "", "", "", "", "",
     "", "", "", "", "", "", "", "", "", "", "", "",
     "", "", "", "", "", "", "", "", "", "", "", "",
     "", "", "", "", "", "", "", "", "", "", "", "",
     "", "", "", "", "", "", "", "", "", "", "", "",
     "", "", "", "", "", "", "", "", "", "", "", "",
     "", "", "", "", "", "", "", "", "", "", "", "",
     "", "", "", "", "", "", "", "", "", "", "", "",
     "", "", "", "", "", "", "", "", "", "", "", "",
     "", "", "", "", "", "", "", "", "", "", "", "",
     "", "", "", "", "", "", "", "", "", "", "", "",
     "", "", "", "", "", "", "", "", "", "", "", "",
     "", "", "", "", "", "", "", "", "", "", "", "",
     "", "", "", "", "", "", "", "", "", "", "", "",
     "", "", "", "", "", "", "", "", "", "", "", "",
     "", "", "", "", "", "", "", "", "", "", "", "",
     "", "", "", "", "", "", "", "", "", "", "", "",
     "", "", "", "", "", "", "", "", "", "", "", "",
     "", "", "", "", "", "", "", "", "", "", "", "",
     "", "", "", "", "", "", "", "", "", "", "", "",
     "", "", "", "", "", "", "", "", "", "", "", "",
     "", "", "", "", "", "", "", "", "", "", "", "",
     "", "", "", "", "", "", "", "", "", "", "", "",
     "", "", "", "", "", "", "", "", "", "", "", "",
     "", "", "", "", "", "", "", "", "", "", "", "",
     "", "", "", "", "", "", "", "", "", "", "", "",
     "", "", "", "", "", "", "I", "L", "", "", "", "",
     "", "", "", "", "", "", "", "", "", "", "", "",
     "", "", "", "", "", "", "", "", "", "", "", "",
     "", "", "", "", "", "", "", "", "", "", "", "",
     "", "", "", "", "", "", "", "", "", "", "", "",
     "", "", "", "", "", "", "", "", "", "", "", "",
     "", "", "", "", "", "", "", "", "", "", "", "",
     "", "", "", "", "", "", "", "", "", "", "", "",
     "", "", "", "", "", "", "", "", "", "", "", "",
     "", "", "", "", "", "", "", "", "", "", "", "",
     "", "", "", "", "", "", "", "", "", "", "", "",
     "", "", "", "", "", "", "", "", "", "", "", "",
     "", "", "", "", "", "", "", "", "", "", "", "",
     "", "", "", "", "", "", "", "", "", "", "", "",
     "", "", "", "", "", "", "", "", "", "", "", "",
     "", "", "", "", "", "", "", "", "", "", "", "",
     "", "", "", "", "", "", "", "", "", "", "", "",
     "", "", "", "", "", "", "", "", "", "", "", "",
     "", "", "", "", "", "", "", "", "", "", "", "",
     "", "", "", "", "", "", "", "", "", "", "", "",
     "", "", "", "", "", "", "", "", "", "", "", "",
     "", "", "", "", "", "", "", "", "", "", "", "",
     "", "", "", "", "", "", "", "", "", "", "", "",
     "", "", "", "", "", "", "", "", "", "", "", "",
     "", "", "", "", "", "", "", "", "", "", "", "",
     "">>

ToUpperFull ==
    [c \in {UpperFrom[i] : i \in DOMAIN UpperFrom} |->
        LET i == CHOOSE j \in DOMAIN UpperFrom : UpperFrom[j] = c
        IN  <<UpperTo[i]>> \o (IF UpperTo2[i] = "" THEN <<>> ELSE <<UpperTo2[i]>>) \o (IF UpperTo3[i] = "" THEN <<>> ELSE <<UpperTo3[i]>>)]

\* the characters str.lower() changes whatever stands around them (the
\* capital sigma U+03A3 is not among them)
LowerFrom ==
    <<"A", "B", "C", "D", "E", "F", "G", "H", "I", "J", "K", "L",
     "M", "N", "O", "P", "Q", "R", "S", "T", "U", "V", "W", "X",
     "Y", "Z", "À", "Á", "Â", "Ã", "Ä", "Å", "Æ", "Ç", "È", "É",
     "Ê", "Ë", "Ì", "Í", "Î", "Ï", "Ð", "Ñ", "Ò", "Ó", "Ô", "Õ",
     "Ö", "Ø", "Ù", "Ú", "Û", "Ü", "Ý", "Þ", "U+0100", "U+0102", "U+0104", "U+0106",
     "U+0108", "U+010A", "U+010C", "U+010E", "U+0110", "U+0112", "U+0114", "U+0116", "U+0118", "U+011A", "U+011C", "U+011E",
     "U+0120", "U+0122", "U+0124", "U+0126", "U+0128", "U+012A", "U+012C", "U+012E", "U+0130", "U+0132", "U+0134", "U+0136",
     "U+0139", "U+013B", "U+013D", "U+013F", "U+0141", "U+0143", "U+0145", "U+0147", "U+014A", "U+014C", "U+014E", "U+0150",
     "U+0152", "U+0154", "U+0156", "U+0158", "U+015A", "U+015C", "U+015E", "U+0160", "U+0162", "U+0164", "U+0166", "U+0168",
     "U+016A", "U+016C", "U+016E", "U+0170", "U+0172", "U+0174", "U+0176", "U+0178", "U+0179", "U+017B", "U+017D", "U+0181",
     "U+0182", "U+0184", "U+0186", "U+0187", "U+0189", "U+018A", "U+018B", "U+018E", "U+018F", "U+0190", "U+0191", "U+0193",
     "U+0194", "U+0196", "U+0197", "U+0198", "U+019C", "U+019D", "U+019F", "U+01A0", "U+01A2", "U+01A4", "U+01A6", "U+01A7",
     "U+01A9", "U+01AC", "U+01AE", "U+01AF", "U+01B1", "U+01B2", "U+01B3", "U+01B5", "U+01B7", "U+01B8", "U+01BC", "U+01C4",
     "U+01C5", "U+01C7", "U+01C8", "U+01CA", "U+01CB", "U+01CD", "U+01CF", "U+01D1", "U+01D3", "U+01D5", "U+01D7", "U+01D9",
     "U+01DB", "U+01DE", "U+01E0", "U+01E2", "U+01E4", "U+01E6", "U+01E8", "U+01EA", "U+01EC", "U+01EE", "U+01F1", "U+01F2",
     "U+01F4", "U+01F6", "U+01F7", "U+01F8", "U+01FA", "U+01FC", "U+01FE", "U+0200", "U+0202", "U+0204", "U+0206", "U+0208",
     "U+020A", "U+020C", "U+020E", "U+0210", "U+0212", "U+0214", "U+0216", "U+0218", "U+021A", "U+021C", "U+021E", "U+0220",
     "U+0222", "U+0224", "U+0226", "U+0228", "U+022A", "U+022C", "U+022E", "U+0230", "U+0232", "U+023A", "U+023B", "U+023D",
     "U+023E", "U+0241", "U+0243", "U+0244", "U+0245", "U+0246", "U+0248", "U+024A", "U+024C", "U+024E", "U+0370", "U+0372",
     "U+0376", "U+037F", "U+0386", "U+0388", "U+0389", "U+038A", "U+038C", "U+038E", "U+038F", "U+0391", "U+0392", "U+0393",
     "U+0394", "U+0395", "U+0396", "U+0397", "U+0398", "U+0399", "U+039A", "U+039B", "U+039C", "U+039D", "U+039E", "U+039F",
     "U+03A0", "U+03A1", "U+03A4", "U+03A5", "U+03A6", "U+03A7", "U+03A8", "U+03A9", "U+03AA", "U+03AB", "U+03CF", "U+03D8",
     "U+03DA", "U+03DC", "U+03DE", "U+03E0", "U+03E2", "U+03E4", "U+03E6", "U+03E8", "U+03EA", "U+03EC", "U+03EE", "U+03F4",
     "U+03F7", "U+03F9", "U+03FA", "U+03FD", "U+03FE", "U+03FF", "U+0400", "U+0401", "U+0402", "U+0403", "U+0404", "U+0405",
     "U+0406", "U+0407", "U+0408", "U+0409", "U+040A", "U+040B", "U+040C", "U+040D", "U+040E", "U+040F", "U+0410", "U+0411",
     "U+0412", "U+0413", "U+0414", "U+0415", "U+0416", "U+0417", "U+0418", "U+0419", "U+041A", "U+041B", "U+041C", "U+041D",
     "U+041E", "U+041F", "U+0420", "U+0421", "U+0422", "U+0423", "U+0424", "U+0425", "U+0426", "U+0427", "U+0428", "U+0429",
     "U+042A", "U+042B", "U+042C", "U+042D", "U+042E", "U+042F", "U+0460", "U+0462", "U+0464", "U+0466", "U+0468", "U+046A",
     "U+046C", "U+046E", "U+0470", "U+0472", "U+0474", "U+0476", "U+0478", "U+047A", "U+047C", "U+047E", "U+0480", "U+048A",
     "U+048C", "U+048E", "U+0490", "U+0492", "U+0494", "U+0496", "U+0498", "U+049A", "U+049C", "U+049E", "U+04A0", "U+04A2",
     "U+04A4", "U+04A6", "U+04A8", "U+04AA", "U+04AC", "U+04AE", "U+04B0", "U+04B2", "U+04B4", "U+04B6", "U+04B8", "U+04BA",
     "U+04BC", "U+04BE", "U+04C0", "U+04C1", "U+04C3", "U+04C5", "U+04C7", "U+04C9", "U+04CB", "U+04CD", "U+04D0", "U+04D2",
     "U+04D4", "U+04D6", "U+04D8", "U+04DA", "U+04DC", "U+04DE", "U+04E0", "U+04E2", "U+04E4", "U+04E6", "U+04E8", "U+04EA",
     "U+04EC", "U+04EE", "U+04F0", "U+04F2", "U+04F4", "U+04F6", "U+04F8", "U+04FA", "U+04FC", "U+04FE", "U+0500", "U+0502",
     "U+0504", "U+0506", "U+0508", "U+050A", "U+050C", "U+050E", "U+0510", "U+0512", "U+0514", "U+0516", "U+0518", "U+051A",
     "U+051C", "U+051E", "U+0520", "U+0522", "U+0524", "U+0526", "U+0528", "U+052A", "U+052C", "U+052E", "U+0531", "U+0532",
     "U+0533", "U+0534", "U+0535", "U+0536", "U+0537", "U+0538", "U+0539", "U+053A", "U+053B", "U+053C", "U+053D", "U+053E",
     "U+053F", "U+0540", "U+0541", "U+0542", "U+0543", "U+0544", "U+0545", "U+0546", "U+0547", "U+0548", "U+0549", "U+054A",
     "U+054B", "U+054C", "U+054D", "U+054E", "U+054F", "U+0550", "U+0551", "U+0552", "U+0553", "U+0554", "U+0555", "U+0556",
     "U+10A0", "U+10A1", "U+10A2", "U+10A3", "U+10A4", "U+10A5", "U+10A6", "U+10A7", "U+10A8", "U+10A9", "U+10AA", "U+10AB",
     "U+10AC", "U+10AD", "U+10AE", "U+10AF", "U+10B0", "U+10B1", "U+10B2", "U+10B3", "U+10B4", "U+10B5", "U+10B6", "U+10B7",
     "U+10B8", "U+10B9", "U+10BA", "U+10BB", "U+10BC", "U+10BD", "U+10BE", "U+10BF", "U+10C0", "U+10C1", "U+10C2", "U+10C3",
     "U+10C4", "U+10C5", "U+10C7", "U+10CD", "U+13A0", "U+13A1", "U+13A2", "U+13A3", "U+13A4", "U+13A5", "U+13A6", "U+13A7",
     "U+13A8", "U+13A9", "U+13AA", "U+13AB", "U+13AC", "U+13AD", "U+13AE", "U+13AF", "U+13B0", "U+13B1", "U+13B2", "U+13B3",
     "U+13B4", "U+13B5", "U+13B6", "U+13B7", "U+13B8", "U+13B9", "U+13BA", "U+13BB", "U+13BC", "U+13BD", "U+13BE", "U+13BF",
     "U+13C0", "U+13C1", "U+13C2", "U+13C3", "U+13C4", "U+13C5", "U+13C6", "U+13C7", "U+13C8", "U+13C9", "U+13CA", "U+13CB",
     "U+13CC", "U+13CD", "U+13CE", "U+13CF", "U+13D0", "U+13D1", "U+13D2", "U+13D3", "U+13D4", "U+13D5", "U+13D6", "U+13D7",
     "U+13D8", "U+13D9", "U+13DA", "U+13DB", "U+13DC", "U+13DD", "U+13DE", "U+13DF", "U+13E0", "U+13E1", "U+13E2", "U+13E3",
     "U+13E4", "U+13E5", "U+13E6", "U+13E7", "U+13E8", "U+13E9", "U+13EA", "U+13EB", "U+13EC", "U+13ED", "U+13EE", "U+13EF",
     "U+13F0", "U+13F1", "U+13F2", "U+13F3", "U+13F4", "U+13F5", "U+1C90", "U+1C91", "U+1C92", "U+1C93", "U+1C94", "U+1C95",
     "U+1C96", "U+1C97", "U+1C98", "U+1C99", "U+1C9A", "U+1C9B", "U+1C9C", "U+1C9D", "U+1C9E", "U+1C9F", "U+1CA0", "U+1CA1",
     "U+1CA2", "U+1CA3", "U+1CA4", "U+1CA5", "U+1CA6", "U+1CA7", "U+1CA8", "U+1CA9", "U+1CAA", "U+1CAB", "U+1CAC", "U+1CAD",
     "U+1CAE", "U+1CAF", "U+1CB0", "U+1CB1", "U+1CB2", "U+1CB3", "U+1CB4", "U+1CB5", "U+1CB6", "U+1CB7", "U+1CB8", "U+1CB9",
     "U+1CBA", "U+1CBD", "U+1CBE", "U+1CBF", "U+1E00", "U+1E02", "U+1E04", "U+1E06", "U+1E08", "U+1E0A", "U+1E0C", "U+1E0E",
     "U+1E10", "U+1E12", "U+1E14", "U+1E16", "U+1E18", "U+1E1A", "U+1E1C", "U+1E1E", "U+1E20", "U+1E22", "U+1E24", "U+1E26",
     "U+1E28", "U+1E2A", "U+1E2C", "U+1E2E", "U+1E30", "U+1E32", "U+1E34", "U+1E36", "U+1E38", "U+1E3A", "U+1E3C", "U+1E3E",
     "U+1E40", "U+1E42", "U+1E44", "U+1E46", "U+1E48", "U+1E4A", "U+1E4C", "U+1E4E", "U+1E50", "U+1E52", "U+1E54", "U+1E56",
     "U+1E58", "U+1E5A", "U+1E5C", "U+1E5E", "U+1E60", "U+1E62", "U+1E64", "U+1E66", "U+1E68", "U+1E6A", "U+1E6C", "U+1E6E",
     "U+1E70", "U+1E72", "U+1E74", "U+1E76", "U+1E78", "U+1E7A", "U+1E7C", "U+1E7E", "U+1E80", "U+1E82", "U+1E84", "U+1E86",
     "U+1E88", "U+1E8A", "U+1E8C", "U+1E8E", "U+1E90", "U+1E92", "U+1E94", "U+1E9E", "U+1EA0", "U+1EA2", "U+1EA4", "U+1EA6",
     "U+1EA8", "U+1EAA", "U+1EAC", "U+1EAE", "U+1EB0", "U+1EB2", "U+1EB4", "U+1EB6", "U+1EB8", "U+1EBA", "U+1EBC", "U+1EBE",
     "U+1EC0", "U+1EC2", "U+1EC4", "U+1EC6", "U+1EC8", "U+1ECA", "U+1ECC", "U+1ECE", "U+1ED0", "U+1ED2", "U+1ED4", "U+1ED6",
     "U+1ED8", "U+1EDA", "U+1EDC", "U+1EDE", "U+1EE0", "U+1EE2", "U+1EE4", "U+1EE6", "U+1EE8", "U+1EEA", "U+1EEC", "U+1EEE",
     "U+1EF0", "U+1EF2", "U+1EF4", "U+1EF6", "U+1EF8", "U+1EFA", "U+1EFC", "U+1EFE", "U+1F08", "U+1F09", "U+1F0A", "U+1F0B",
     "U+1F0C", "U+1F0D", "U+1F0E", "U+1F0F", "U+1F18", "U+1F19", "U+1F1A", "U+1F1B", "U+1F1C", "U+1F1D", "U+1F28", "U+1F29",
     "U+1F2A", "U+1F2B", "U+1F2C", "U+1F2D", "U+1F2E", "U+1F2F", "U+1F38", "U+1F39", "U+1F3A", "U+1F3B", "U+1F3C", "U+1F3D",
     "U+1F3E", "U+1F3F", "U+1F48", "U+1F49", "U+1F4A", "U+1F4B", "U+1F4C", "U+1F4D", "U+1F59", "U+1F5B", "U+1F5D", "U+1F5F",
     "U+1F68", "U+1F69", "U+1F6A", "U+1F6B", "U+1F6C", "U+1F6D", "U+1F6E", "U+1F6F", "U+1F88", "U+1F89", "U+1F8A", "U+1F8B",
     "U+1F8C", "U+1F8D", "U+1F8E", "U+1F8F", "U+1F98", "U+1F99", "U+1F9A", "U+1F9B", "U+1F9C", "U+1F9D", "U+1F9E", "U+1F9F",
     "U+1FA8", "U+1FA9", "U+1FAA", "U+1FAB", "U+1FAC", "U+1FAD", "U+1FAE", "U+1FAF", "U+1FB8", "U+1FB9", "U+1FBA", "U+1FBB",
     "U+1FBC", "U+1FC8", "U+1FC9", "U+1FCA", "U+1FCB", "U+1FCC", "U+1FD8", "U+1FD9", "U+1FDA", "U+1FDB", "U+1FE8", "U+1FE9",
     "U+1FEA", "U+1FEB", "U+1FEC", "U+1FF8", "U+1FF9", "U+1FFA", "U+1FFB", "U+1FFC", "U+2126", "U+212A", "U+212B", "U+2132",
     "U+2160", "U+2161", "U+2162", "U+2163", "U+2164", "U+2165", "U+2166", "U+2167", "U+2168", "U+2169", "U+216A", "U+216B",
     "U+216C", "U+216D", "U+216E", "U+216F", "U+2183", "U+24B6", "U+24B7", "U+24B8", "U+24B9", "U+24BA", "U+24BB", "U+24BC",
     "U+24BD", "U+24BE", "U+24BF", "U+24C0", "U+24C1", "U+24C2", "U+24C3", "U+24C4", "U+24C5", "U+24C6", "U+24C7", "U+24C8",
     "U+24C9", "U+24CA", "U+24CB", "U+24CC", "U+24CD", "U+24CE", "U+24CF", "U+2C00", "U+2C01", "U+2C02", "U+2C03", "U+2C04",
     "U+2C05", "U+2C06", "U+2C07", "U+2C08", "U+2C09", "U+2C0A", "U+2C0B", "U+2C0C", "U+2C0D", "U+2C0E", "U+2C0F", "U+2C10",
     "U+2C11", "U+2C12", "U+2C13", "U+2C14", "U+2C15", "U+2C16", "U+2C17", "U+2C18", "U+2C19", "U+2C1A", "U+2C1B", "U+2C1C",
     "U+2C1D", "U+2C1E", "U+2C1F", "U+2C20", "U+2C21", "U+2C22", "U+2C23", "U+2C24", "U+2C25", "U+2C26", "U+2C27", "U+2C28",
     "U+2C29", "U+2C2A", "U+2C2B", "U+2C2C", "U+2C2D", "U+2C2E", "U+2C2F", "U+2C60", "U+2C62", "U+2C63", "U+2C64", "U+2C67",
     "U+2C69", "U+2C6B", "U+2C6D", "U+2C6E", "U+2C6F", "U+2C70", "U+2C72", "U+2C75", "U+2C7E", "U+2C7F", "U+2C80", "U+2C82",
     "U+2C84", "U+2C86", "U+2C88", "U+2C8A", "U+2C8C", "U+2C8E", "U+2C90", "U+2C92", "U+2C94", "U+2C96", "U+2C98", "U+2C9A",
     "U+2C9C", "U+2C9E", "U+2CA0", "U+2CA2", "U+2CA4", "U+2CA6", "U+2CA8", "U+2CAA", "U+2CAC", "U+2CAE", "U+2CB0", "U+2CB2",
     "U+2CB4", "U+2CB6", "U+2CB8", "U+2CBA", "U+2CBC", "U+2CBE", "U+2CC0", "U+2CC2", "U+2CC4", "U+2CC6", "U+2CC8", "U+2CCA",
     "U+2CCC", "U+2CCE", "U+2CD0", "U+2CD2", "U+2CD4", "U+2CD6", "U+2CD8", "U+2CDA", "U+2CDC", "U+2CDE", "U+2CE0", "U+2CE2",
     "U+2CEB", "U+2CED", "U+2CF2", "U+A640", "U+A642", "U+A644", "U+A646", "U+A648", "U+A64A", "U+A64C", "U+A64E", "U+A650",
     "U+A652", "U+A654", "U+A656", "U+A658", "U+A65A", "U+A65C", "U+A65E", "U+A660", "U+A662", "U+A664", "U+A666", "U+A668",
     "U+A66A", "U+A66C", "U+A680", "U+A682", "U+A684", "U+A686", "U+A688", "U+A68A", "U+A68C", "U+A68E", "U+A690", "U+A692",
     "U+A694", "U+A696", "U+A698", "U+A69A", "U+A722", "U+A724", "U+A726", "U+A728", "U+A72A", "U+A72C", "U+A72E", "U+A732",
     "U+A734", "U+A736", "U+A738", "U+A73A", "U+A73C", "U+A73E", "U+A740", "U+A742", "U+A744", "U+A746", "U+A748", "U+A74A",
     "U+A74C", "U+A74E", "U+A750", "U+A752", "U+A754", "U+A756", "U+A758", "U+A75A", "U+A75C", "U+A75E", "U+A760", "U+A762",
     "U+A764", "U+A766", "U+A768", "U+A76A", "U+A76C", "U+A76E", "U+A779", "U+A77B", "U+A77D", "U+A77E", "U+A780", "U+A782",
     "U+A784", "U+A786", "U+A78B", "U+A78D", "U+A790", "U+A792", "U+A796", "U+A798", "U+A79A", "U+A79C", "U+A79E", "U+A7A0",
     "U+A7A2", "U+A7A4", "U+A7A6", "U+A7A8", "U+A7AA", "U+A7AB", "U+A7AC", "U+A7AD", "U+A7AE", "U+A7B0", "U+A7B1", "U+A7B2",
     "U+A7B3", "U+A7B4", "U+A7B6", "U+A7B8", "U+A7BA", "U+A7BC", "U+A7BE", "U+A7C0", "U+A7C2", "U+A7C4", "U+A7C5", "U+A7C6",
     "U+A7C7", "U+A7C9", "U+A7D0", "U+A7D6", "U+A7D8", "U+A7F5", "U+FF21", "U+FF22", "U+FF23", "U+FF24", "U+FF25", "U+FF26",
     "U+FF27", "U+FF28", "U+FF29", "U+FF2A", "U+FF2B", "U+FF2C", "U+FF2D", "U+FF2E", "U+FF2F", "U+FF30", "U+FF31", "U+FF32",
     "U+FF33", "U+FF34", "U+FF35", "U+FF36", "U+FF37", "U+FF38", "U+FF39", "U+FF3A", "U+10400", "U+10401", "U+10402", "U+10403",
     "U+10404", "U+10405", "U+10406", "U+10407", "U+10408", "U+10409", "U+1040A", "U+1040B", "U+1040C", "U+1040D", "U+1040E", "U+1040F",
     "U+10410", "U+10411", "U+10412", "U+10413", "U+10414", "U+10415", "U+10416", "U+10417", "U+10418", "U+10419", "U+1041A", "U+1041B",
     "U+1041C", "U+1041D", "U+1041E", "U+1041F", "U+10420", "U+10421", "U+10422", "U+10423", "U+10424", "U+10425", "U+10426", "U+10427",
     "U+104B0", "U+104B1", "U+104B2", "U+104B3", "U+104B4", "U+104B5", "U+104B6", "U+104B7", "U+104B8", "U+104B9", "U+104BA", "U+104BB",
     "U+104BC", "U+104BD", "U+104BE", "U+104BF", "U+104C0", "U+104C1", "U+104C2", "U+104C3", "U+104C4", "U+104C5", "U+104C6", "U+104C7",
     "U+104C8", "U+104C9", "U+104CA", "U+104CB", "U+104CC", "U+104CD", "U+104CE", "U+104CF", "U+104D0", "U+104D1", "U+104D2", "U+104D3",
     "U+10570", "U+10571", "U+10572", "U+10573", "U+10574", "U+10575", "U+10576", "U+10577", "U+10578", "U+10579", "U+1057A", "U+1057C",
     "U+1057D", "U+1057E", "U+1057F", "U+10580", "U+10581", "U+10582", "U+10583", "U+10584", "U+10585", "U+10586", "U+10587", "U+10588",
     "U+10589", "U+1058A", "U+1058C", "U+1058D", "U+1058E", "U+1058F", "U+10590", "U+10591", "U+10592", "U+10594", "U+10595", "U+10C80",
     "U+10C81", "U+10C82", "U+10C83", "U+10C84", "U+10C85", "U+10C86", "U+10C87", "U+10C88", "U+10C89", "U+10C8A", "U+10C8B", "U+10C8C",
     "U+10C8D", "U+10C8E", "U+10C8F", "U+10C90", "U+10C91", "U+10C92", "U+10C93", "U+10C94", "U+10C95", "U+10C96", "U+10C97", "U+10C98",
     "U+10C99", "U+10C9A", "U+10C9B", "U+10C9C", "U+10C9D", "U+10C9E", "U+10C9F", "U+10CA0", "U+10CA1", "U+10CA2", "U+10CA3", "U+10CA4",
     "U+10CA5", "U+10CA6", "U+10CA7", "U+10CA8", "U+10CA9", "U+10CAA", "U+10CAB", "U+10CAC", "U+10CAD", "U+10CAE", "U+10CAF", "U+10CB0",
     "U+10CB1", "U+10CB2", "U+118A0", "U+118A1", "U+118A2", "U+118A3", "U+118A4", "U+118A5", "U+118A6", "U+118A7", "U+118A8", "U+118A9",
     "U+118AA", "U+118AB", "U+118AC", "U+118AD", "U+118AE", "U+118AF", "U+118B0", "U+118B1", "U+118B2", "U+118B3", "U+118B4", "U+118B5",
     "U+118B6", "U+118B7", "U+118B8", "U+118B9", "U+118BA", "U+118BB", "U+118BC", "U+118BD", "U+118BE", "U+118BF", "U+16E40", "U+16E41",
     "U+16E42", "U+16E43", "U+16E44", "U+16E45", "U+16E46", "U+16E47", "U+16E48", "U+16E49", "U+16E4A", "U+16E4B", "U+16E4C", "U+16E4D",
     "U+16E4E", "U+16E4F", "U+16E50", "U+16E51", "U+16E52", "U+16E53", "U+16E54", "U+16E55", "U+16E56", "U+16E57", "U+16E58", "U+16E59",
     "U+16E5A", "U+16E5B", "U+16E5C", "U+16E5D", "U+16E5E", "U+16E5F", "U+1E900", "U+1E901", "U+1E902", "U+1E903", "U+1E904", "U+1E905",
     "U+1E906", "U+1E907", "U+1E908", "U+1E909", "U+1E90A", "U+1E90B", "U+1E90C", "U+1E90D", "U+1E90E", "U+1E90F", "U+1E910", "U+1E911",
     "U+1E912", "U+1E913", "U+1E914", "U+1E915", "U+1E916", "U+1E917", "U+1E918", "U+1E919", "U+1E91A", "U+1E91B", "U+1E91C", "U+1E91D",
     "U+1E91E", "U+1E91F", "U+1E920", "U+1E921">>

\* what str.lower() makes of each of them: one character, and two for the
\* dotted capital I (U+0130); here the first
LowerTo ==
    <<"a", "b", "c", "d", "e", "f", "g", "h", "i", "j", "k", "l",
     "m", "n", "o", "p", "q", "r", "s", "t", "u", "v", "w", "x",
     "y", "z", "à", "á", "â", "ã", "ä", "å", "æ", "ç", "è", "é",
     "ê", "ë", "ì", "í", "î", "ï", "ð", "ñ", "ò", "ó", "ô", "õ",
     "ö", "ø", "ù", "ú", "û", "ü", "ý", "þ", "U+0101", "U+0103", "U+0105", "U+0107",
     "U+0109", "U+010B", "U+010D", "U+010F", "U+0111", "U+0113", "U+0115", "U+0117", "U+0119", "U+011B", "U+011D", "U+011F",
     "U+0121", "U+0123", "U+0125", "U+0127", "U+0129", "U+012B", "U+012D", "U+012F", "i", "U+0133", "U+0135", "U+0137",
     "U+013A", "U+013C", "U+013E", "U+0140", "U+0142", "U+0144", "U+0146", "U+0148", "U+014B", "U+014D", "U+014F", "U+0151",
     "U+0153", "U+0155", "U+0157", "U+0159", "U+015B", "U+015D", "U+015F", "U+0161", "U+0163", "U+0165", "U+0167", "U+0169",
     "U+016B", "U+016D", "U+016F", "U+0171", "U+0173", "U+0175", "U+0177", "ÿ", "U+017A", "U+017C", "U+017E", "U+0253",
     "U+0183", "U+0185", "U+0254", "U+0188", "U+0256", "U+0257", "U+018C", "U+01DD", "U+0259", "U+025B", "U+0192", "U+0260",
     "U+0263", "U+0269", "U+0268", "U+0199", "U+026F", "U+0272", "U+0275", "U+01A1", "U+01A3", "U+01A5", "U+0280", "U+01A8",
     "U+0283", "U+01AD", "U+0288", "U+01B0", "U+028A", "U+028B", "U+01B4", "U+01B6", "U+0292", "U+01B9", "U+01BD", "U+01C6",
     "U+01C6", "U+01C9", "U+01C9", "U+01CC", "U+01CC", "U+01CE", "U+01D0", "U+01D2", "U+01D4", "U+01D6", "U+01D8", "U+01DA",
     "U+01DC", "U+01DF", "U+01E1", "U+01E3", "U+01E5", "U+01E7", "U+01E9", "U+01EB", "U+01ED", "U+01EF", "U+01F3", "U+01F3",
     "U+01F5", "U+0195", "U+01BF", "U+01F9", "U+01FB", "U+01FD", "U+01FF", "U+0201", "U+0203", "U+0205", "U+0207", "U+0209",
     "U+020B", "U+020D", "U+020F", "U+0211", "U+0213", "U+0215", "U+0217", "U+0219", "U+021B", "U+021D", "U+021F", "U+019E",
     "U+0223", "U+0225", "U+0227", "U+0229", "U+022B", "U+022D", "U+022F", "U+0231", "U+0233", "U+2C65", "U+023C", "U+019A",
     "U+2C66", "U+0242", "U+0180", "U+0289", "U+028C", "U+0247", "U+0249", "U+024B", "U+024D", "U+024F", "U+0371", "U+0373",
     "U+0377", "U+03F3", "U+03AC", "U+03AD", "U+03AE", "U+03AF", "U+03CC", "U+03CD", "U+03CE", "U+03B1", "U+03B2", "U+03B3",
     "U+03B4", "U+03B5", "U+03B6", "U+03B7", "U+03B8", "U+03B9", "U+03BA", "U+03BB", "U+03BC", "U+03BD", "U+03BE", "U+03BF",
     "U+03C0", "U+03C1", "U+03C4", "U+03C5", "U+03C6", "U+03C7", "U+03C8", "U+03C9", "U+03CA", "U+03CB", "U+03D7", "U+03D9",
     "U+03DB", "U+03DD", "U+03DF", "U+03E1", "U+03E3", "U+03E5", "U+03E7", "U+03E9", "U+03EB", "U+03ED", "U+03EF", "U+03B8",
     "U+03F8", "U+03F2", "U+03FB", "U+037B", "U+037C", "U+037D", "U+0450", "U+0451", "U+0452", "U+0453", "U+0454", "U+0455",
     "U+0456", "U+0457", "U+0458", "U+0459", "U+045A", "U+045B", "U+045C", "U+045D", "U+045E", "U+045F", "U+0430", "U+0431",
     "U+0432", "U+0433", "U+0434", "U+0435", "U+0436", "U+0437", "U+0438", "U+0439", "U+043A", "U+043B", "U+043C", "U+043D",
     "U+043E", "U+043F", "U+0440", "U+0441", "U+0442", "U+0443", "U+0444", "U+0445", "U+0446", "U+0447", "U+0448", "U+0449",
     "U+044A", "U+044B", "U+044C", "U+044D", "U+044E", "U+044F", "U+0461", "U+0463", "U+0465", "U+0467", "U+0469", "U+046B",
     "U+046D", "U+046F", "U+0471", "U+0473", "U+0475", "U+0477", "U+0479", "U+047B", "U+047D", "U+047F", "U+0481", "U+048B",
     "U+048D", "U+048F", "U+0491", "U+0493", "U+0495", "U+0497", "U+0499", "U+049B", "U+049D", "U+049F", "U+04A1", "U+04A3",
     "U+04A5", "U+04A7", "U+04A9", "U+04AB", "U+04AD", "U+04AF", "U+04B1", "U+04B3", "U+04B5", "U+04B7", "U+04B9", "U+04BB",
     "U+04BD", "U+04BF", "U+04CF", "U+04C2", "U+04C4", "U+04C6", "U+04C8", "U+04CA", "U+04CC", "U+04CE", "U+04D1", "U+04D3",
     "U+04D5", "U+04D7", "U+04D9", "U+04DB", "U+04DD", "U+04DF", "U+04E1", "U+04E3", "U+04E5", "U+04E7", "U+04E9", "U+04EB",
     "U+04ED", "U+04EF", "U+04F1", "U+04F3", "U+04F5", "U+04F7", "U+04F9", "U+04FB", "U+04FD", "U+04FF", "U+0501", "U+0503",
     "U+0505", "U+0507", "U+0509", "U+050B", "U+050D", "U+050F", "U+0511", "U+0513", "U+0515", "U+0517", "U+0519", "U+051B",
     "U+051D", "U+051F", "U+0521", "U+0523", "U+0525", "U+0527", "U+0529", "U+052B", "U+052D", "U+052F", "U+0561", "U+0562",
     "U+0563", "U+0564", "U+0565", "U+0566", "U+0567", "U+0568", "U+0569", "U+056A", "U+056B", "U+056C", "U+056D", "U+056E",
     "U+056F", "U+0570", "U+0571", "U+0572", "U+0573", "U+0574", "U+0575", "U+0576", "U+0577", "U+0578", "U+0579", "U+057A",
     "U+057B", "U+057C", "U+057D", "U+057E", "U+057F", "U+0580", "U+0581", "U+0582", "U+0583", "U+0584", "U+0585", "U+0586",
     "U+2D00", "U+2D01", "U+2D02", "U+2D03", "U+2D04", "U+2D05", "U+2D06", "U+2D07", "U+2D08", "U+2D09", "U+2D0A", "U+2D0B",
     "U+2D0C", "U+2D0D", "U+2D0E", "U+2D0F", "U+2D10", "U+2D11", "U+2D12", "U+2D13", "U+2D14", "U+2D15", "U+2D16", "U+2D17",
     "U+2D18", "U+2D19", "U+2D1A", "U+2D1B", "U+2D1C", "U+2D1D", "U+2D1E", "U+2D1F", "U+2D20", "U+2D21", "U+2D22", "U+2D23",
     "U+2D24", "U+2D25", "U+2D27", "U+2D2D", "U+AB70", "U+AB71", "U+AB72", "U+AB73", "U+AB74", "U+AB75", "U+AB76", "U+AB77",
     "U+AB78", "U+AB79", "U+AB7A", "U+AB7B", "U+AB7C", "U+AB7D", "U+AB7E", "U+AB7F", "U+AB80", "U+AB81", "U+AB82", "U+AB83",
     "U+AB84", "U+AB85", "U+AB86", "U+AB87", "U+AB88", "U+AB89", "U+AB8A", "U+AB8B", "U+AB8C", "U+AB8D", "U+AB8E", "U+AB8F",
     "U+AB90", "U+AB91", "U+AB92", "U+AB93", "U+AB94", "U+AB95", "U+AB96", "U+AB97", "U+AB98", "U+AB99", "U+AB9A", "U+AB9B",
     "U+AB9C", "U+AB9D", "U+AB9E", "U+AB9F", "U+ABA0", "U+ABA1", "U+ABA2", "U+ABA3", "U+ABA4", "U+ABA5", "U+ABA6", "U+ABA7",
     "U+ABA8", "U+ABA9", "U+ABAA", "U+ABAB", "U+ABAC", "U+ABAD", "U+ABAE", "U+ABAF", "U+ABB0", "U+ABB1", "U+ABB2", "U+ABB3",
     "U+ABB4", "U+ABB5", "U+ABB6", "U+ABB7", "U+ABB8", "U+ABB9", "U+ABBA", "U+ABBB", "U+ABBC", "U+ABBD", "U+ABBE", "U+ABBF",
     "U+13F8", "U+13F9", "U+13FA", "U+13FB", "U+13FC", "U+13FD", "U+10D0", "U+10D1", "U+10D2", "U+10D3", "U+10D4", "U+10D5",
     "U+10D6", "U+10D7", "U+10D8", "U+10D9", "U+10DA", "U+10DB", "U+10DC", "U+10DD", "U+10DE", "U+10DF", "U+10E0", "U+10E1",
     "U+10E2", "U+10E3", "U+10E4", "U+10E5", "U+10E6", "U+10E7", "U+10E8", "U+10E9", "U+10EA", "U+10EB", "U+10EC", "U+10ED",
     "U+10EE", "U+10EF", "U+10F0", "U+10F1", "U+10F2", "U+10F3", "U+10F4", "U+10F5", "U+10F6", "U+10F7", "U+10F8", "U+10F9",
     "U+10FA", "U+10FD", "U+10FE", "U+10FF", "U+1E01", "U+1E03", "U+1E05", "U+1E07", "U+1E09", "U+1E0B", "U+1E0D", "U+1E0F",
     "U+1E11", "U+1E13", "U+1E15", "U+1E17", "U+1E19", "U+1E1B", "U+1E1D", "U+1E1F", "U+1E21", "U+1E23", "U+1E25", "U+1E27",
     "U+1E29", "U+1E2B", "U+1E2D", "U+1E2F", "U+1E31", "U+1E33", "U+1E35", "U+1E37", "U+1E39", "U+1E3B", "U+1E3D", "U+1E3F",
     "U+1E41", "U+1E43", "U+1E45", "U+1E47", "U+1E49", "U+1E4B", "U+1E4D", "U+1E4F", "U+1E51", "U+1E53", "U+1E55", "U+1E57",
     "U+1E59", "U+1E5B", "U+1E5D", "U+1E5F", "U+1E61", "U+1E63", "U+1E65", "U+1E67", "U+1E69", "U+1E6B", "U+1E6D", "U+1E6F",
     "U+1E71", "U+1E73", "U+1E75", "U+1E77", "U+1E79", "U+1E7B", "U+1E7D", "U+1E7F", "U+1E81", "U+1E83", "U+1E85", "U+1E87",
     "U+1E89", "U+1E8B", "U+1E8D", "U+1E8F", "U+1E91", "U+1E93", "U+1E95", "ß", "U+1EA1", "U+1EA3", "U+1EA5", "U+1EA7",
     "U+1EA9", "U+1EAB", "U+1EAD", "U+1EAF", "U+1EB1", "U+1EB3", "U+1EB5", "U+1EB7", "U+1EB9", "U+1EBB", "U+1EBD", "U+1EBF",
     "U+1EC1", "U+1EC3", "U+1EC5", "U+1EC7", "U+1EC9", "U+1ECB", "U+1ECD", "U+1ECF", "U+1ED1", "U+1ED3", "U+1ED5", "U+1ED7",
     "U+1ED9", "U+1EDB", "U+1EDD", "U+1EDF", "U+1EE1", "U+1EE3", "U+1EE5", "U+1EE7", "U+1EE9", "U+1EEB", "U+1EED", "U+1EEF",
     "U+1EF1", "U+1EF3", "U+1EF5", "U+1EF7", "U+1EF9", "U+1EFB", "U+1EFD", "U+1EFF", "U+1F00", "U+1F01", "U+1F02", "U+1F03",
     "U+1F04", "U+1F05", "U+1F06", "U+1F07", "U+1F10", "U+1F11", "U+1F12", "U+1F13", "U+1F14", "U+1F15", "U+1F20", "U+1F21",
     "U+1F22", "U+1F23", "U+1F24", "U+1F25", "U+1F26", "U+1F27", "U+1F30", "U+1F31", "U+1F32", "U+1F33", "U+1F34", "U+1F35",
     "U+1F36", "U+1F37", "U+1F40", "U+1F41", "U+1F42", "U+1F43", "U+1F44", "U+1F45", "U+1F51", "U+1F53", "U+1F55", "U+1F57",
     "U+1F60", "U+1F61", "U+1F62", "U+1F63", "U+1F64", "U+1F65", "U+1F66", "U+1F67", "U+1F80", "U+1F81", "U+1F82", "U+1F83",
     "U+1F84", "U+1F85", "U+1F86", "U+1F87", "U+1F90", "U+1F91", "U+1F92", "U+1F93", "U+1F94", "U+1F95", "U+1F96", "U+1F97",
     "U+1FA0", "U+1FA1", "U+1FA2", "U+1FA3", "U+1FA4", "U+1FA5", "U+1FA6", "U+1FA7", "U+1FB0", "U+1FB1", "U+1F70", "U+1F71",
     "U+1FB3", "U+1F72", "U+1F73", "U+1F74", "U+1F75", "U+1FC3", "U+1FD0", "U+1FD1", "U+1F76", "U+1F77", "U+1FE0", "U+1FE1",
     "U+1F7A", "U+1F7B", "U+1FE5", "U+1F78", "U+1F79", "U+1F7C", "U+1F7D", "U+1FF3", "U+03C9", "k", "å", "U+214E",
     "U+2170", "U+2171", "U+2172", "U+2173", "U+2174", "U+2175", "U+2176", "U+2177", "U+2178", "U+2179", "U+217A", "U+217B",
     "U+217C", "U+217D", "U+217E", "U+217F", "U+2184", "U+24D0", "U+24D1", "U+24D2", "U+24D3", "U+24D4", "U+24D5", "U+24D6",
     "U+24D7", "U+24D8", "U+24D9", "U+24DA", "U+24DB", "U+24DC", "U+24DD", "U+24DE", "U+24DF", "U+24E0", "U+24E1", "U+24E2",
     "U+24E3", "U+24E4", "U+24E5", "U+24E6", "U+24E7", "U+24E8", "U+24E9", "U+2C30", "U+2C31", "U+2C32", "U+2C33", "U+2C34",
     "U+2C35", "U+2C36", "U+2C37", "U+2C38", "U+2C39", "U+2C3A", "U+2C3B", "U+2C3C", "U+2C3D", "U+2C3E", "U+2C3F", "U+2C40",
     "U+2C41", "U+2C42", "U+2C43", "U+2C44", "U+2C45", "U+2C46", "U+2C47", "U+2C48", "U+2C49", "U+2C4A", "U+2C4B", "U+2C4C",
     "U+2C4D", "U+2C4E", "U+2C4F", "U+2C50", "U+2C51", "U+2C52", "U+2C53", "U+2C54", "U+2C55", "U+2C56", "U+2C57", "U+2C58",
     "U+2C59", "U+2C5A", "U+2C5B", "U+2C5C", "U+2C5D", "U+2C5E", "U+2C5F", "U+2C61", "U+026B", "U+1D7D", "U+027D", "U+2C68",
     "U+2C6A", "U+2C6C", "U+0251", "U+0271", "U+0250", "U+0252", "U+2C73", "U+2C76", "U+023F", "U+0240", "U+2C81", "U+2C83",
     "U+2C85", "U+2C87", "U+2C89", "U+2C8B", "U+2C8D", "U+2C8F", "U+2C91", "U+2C93", "U+2C95", "U+2C97", "U+2C99", "U+2C9B",
     "U+2C9D", "U+2C9F", "U+2CA1", "U+2CA3", "U+2CA5", "U+2CA7", "U+2CA9", "U+2CAB", "U+2CAD", "U+2CAF", "U+2CB1", "U+2CB3",
     "U+2CB5", "U+2CB7", "U+2CB9", "U+2CBB", "U+2CBD", "U+2CBF", "U+2CC1", "U+2CC3", "U+2CC5", "U+2CC7", "U+2CC9", "U+2CCB",
     "U+2CCD", "U+2CCF", "U+2CD1", "U+2CD3", "U+2CD5", "U+2CD7", "U+2CD9", "U+2CDB", "U+2CDD", "U+2CDF", "U+2CE1", "U+2CE3",
     "U+2CEC", "U+2CEE", "U+2CF3", "U+A641", "U+A643", "U+A645", "U+A647", "U+A649", "U+A64B", "U+A64D", "U+A64F", "U+A651",
     "U+A653", "U+A655", "U+A657", "U+A659", "U+A65B", "U+A65D", "U+A65F", "U+A661", "U+A663", "U+A665", "U+A667", "U+A669",
     "U+A66B", "U+A66D", "U+A681", "U+A683", "U+A685", "U+A687", "U+A689", "U+A68B", "U+A68D", "U+A68F", "U+A691", "U+A693",
     "U+A695", "U+A697", "U+A699", "U+A69B", "U+A723", "U+A725", "U+A727", "U+A729", "U+A72B", "U+A72D", "U+A72F", "U+A733",
     "U+A735", "U+A737", "U+A739", "U+A73B", "U+A73D", "U+A73F", "U+A741", "U+A743", "U+A745", "U+A747", "U+A749", "U+A74B",
     "U+A74D", "U+A74F", "U+A751", "U+A753", "U+A755", "U+A757", "U+A759", "U+A75B", "U+A75D", "U+A75F", "U+A761", "U+A763",
     "U+A765", "U+A767", "U+A769", "U+A76B", "U+A76D", "U+A76F", "U+A77A", "U+A77C", "U+1D79", "U+A77F", "U+A781", "U+A783",
     "U+A785", "U+A787", "U+A78C", "U+0265", "U+A791", "U+A793", "U+A797", "U+A799", "U+A79B", "U+A79D", "U+A79F", "U+A7A1",
     "U+A7A3", "U+A7A5", "U+A7A7", "U+A7A9", "U+0266", "U+025C", "U+0261", "U+026C", "U+026A", "U+029E", "U+0287", "U+029D",
     "U+AB53", "U+A7B5", "U+A7B7", "U+A7B9", "U+A7BB", "U+A7BD", "U+A7BF", "U+A7C1", "U+A7C3", "U+A794", "U+0282", "U+1D8E",
     "U+A7C8", "U+A7CA", "U+A7D1", "U+A7D7", "U+A7D9", "U+A7F6", "U+FF41", "U+FF42", "U+FF43", "U+FF44", "U+FF45", "U+FF46",
     "U+FF47", "U+FF48", "U+FF49", "U+FF4A", "U+FF4B", "U+FF4C", "U+FF4D", "U+FF4E", "U+FF4F", "U+FF50", "U+FF51", "U+FF52",
     "U+FF53", "U+FF54", "U+FF55", "U+FF56", "U+FF57", "U+FF58", "U+FF59", "U+FF5A", "U+10428", "U+10429", "U+1042A", "U+1042B",
     "U+1042C", "U+1042D", "U+1042E", "U+1042F", "U+10430", "U+10431", "U+10432", "U+10433", "U+10434", "U+10435", "U+10436", "U+10437",
     "U+10438", "U+10439", "U+1043A", "U+1043B", "U+1043C", "U+1043D", "U+1043E", "U+1043F", "U+10440", "U+10441", "U+10442", "U+10443",
     "U+10444", "U+10445", "U+10446", "U+10447", "U+10448", "U+10449", "U+1044A", "U+1044B", "U+1044C", "U+1044D", "U+1044E", "U+1044F",
     "U+104D8", "U+104D9", "U+104DA", "U+104DB", "U+104DC", "U+104DD", "U+104DE", "U+104DF", "U+104E0", "U+104E1", "U+104E2", "U+104E3",
     "U+104E4", "U+104E5", "U+104E6", "U+104E7", "U+104E8", "U+104E9", "U+104EA", "U+104EB", "U+104EC", "U+104ED", "U+104EE", "U+104EF",
     "U+104F0", "U+104F1", "U+104F2", "U+104F3", "U+104F4", "U+104F5", "U+104F6", "U+104F7", "U+104F8", "U+104F9", "U+104FA", "U+104FB",
     "U+10597", "U+10598", "U+10599", "U+1059A", "U+1059B", "U+1059C", "U+1059D", "U+1059E", "U+1059F", "U+105A0", "U+105A1", "U+105A3",
     "U+105A4", "U+105A5", "U+105A6", "U+105A7", "U+105A8", "U+105A9", "U+105AA", "U+105AB", "U+105AC", "U+105AD", "U+105AE", "U+105AF",
     "U+105B0", "U+105B1", "U+105B3", "U+105B4", "U+105B5", "U+105B6", "U+105B7", "U+105B8", "U+105B9", "U+105BB", "U+105BC", "U+10CC0",
     "U+10CC1", "U+10CC2", "U+10CC3", "U+10CC4", "U+10CC5", "U+10CC6", "U+10CC7", "U+10CC8", "U+10CC9", "U+10CCA", "U+10CCB", "U+10CCC",
     "U+10CCD", "U+10CCE", "U+10CCF", "U+10CD0", "U+10CD1", "U+10CD2", "U+10CD3", "U+10CD4", "U+10CD5", "U+10CD6", "U+10CD7", "U+10CD8",
     "U+10CD9", "U+10CDA", "U+10CDB", "U+10CDC", "U+10CDD", "U+10CDE", "U+10CDF", "U+10CE0", "U+10CE1", "U+10CE2", "U+10CE3", "U+10CE4",
     "U+10CE5", "U+10CE6", "U+10CE7", "U+10CE8", "U+10CE9", "U+10CEA", "U+10CEB", "U+10CEC", "U+10CED", "U+10CEE", "U+10CEF", "U+10CF0",
     "U+10CF1", "U+10CF2", "U+118C0", "U+118C1", "U+118C2", "U+118C3", "U+118C4", "U+118C5", "U+118C6", "U+118C7", "U+118C8", "U+118C9",
     "U+118CA", "U+118CB", "U+118CC", "U+118CD", "U+118CE", "U+118CF", "U+118D0", "U+118D1", "U+118D2", "U+118D3", "U+118D4", "U+118D5",
     "U+118D6", "U+118D7", "U+118D8", "U+118D9", "U+118DA", "U+118DB", "U+118DC", "U+118DD", "U+118DE", "U+118DF", "U+16E60", "U+16E61",
     "U+16E62", "U+16E63", "U+16E64", "U+16E65", "U+16E66", "U+16E67", "U+16E68", "U+16E69", "U+16E6A", "U+16E6B", "U+16E6C", "U+16E6D",
     "U+16E6E", "U+16E6F", "U+16E70", "U+16E71", "U+16E72", "U+16E73", "U+16E74", "U+16E75", "U+16E76", "U+16E77", "U+16E78", "U+16E79",
     "U+16E7A", "U+16E7B", "U+16E7C", "U+16E7D", "U+16E7E", "U+16E7F", "U+1E922", "U+1E923", "U+1E924", "U+1E925", "U+1E926", "U+1E927",
     "U+1E928", "U+1E929", "U+1E92A", "U+1E92B", "U+1E92C", "U+1E92D", "U+1E92E", "U+1E92F", "U+1E930", "U+1E931", "U+1E932", "U+1E933",
     "U+1E934", "U+1E935", "U+1E936", "U+1E937", "U+1E938", "U+1E939", "U+1E93A", "U+1E93B", "U+1E93C", "U+1E93D", "U+1E93E", "U+1E93F",
     "U+1E940", "U+1E941", "U+1E942", "U+1E943">>

\* the second character str.lower() makes of each of them, "" where it makes one
LowerTo2 ==
    <<"", "", "", "", "", "", "", "", "", "", "", "",
     "", "", "", "", "", "", "", "", "", "", "", "",
     "", "", "", "", "", "", "", "", "", "", "", "",
     "", "", "", "", "", "", "", "", "", "", "", "",
     "", "", "", "", "", "", "", "", "", "", "", "",
     "", "", "", "", "", "", "", "", "", "", "", "",
     "", "", "", "", "", "", "", "", "U+0307", "", "", "",
     "", "", "", "", "", "", "", "", "", "", "", "",
     "", "", "", "", "", "", "", "", "", "", "", "",
     "", "", "", "", "", "", "", "", "", "", "", "",
     "", "", "", "", "", "", "", "", "", "", "", "",
     "", "", "", "", "", "", "", "", "", "", "", "",
     "", "", "", "", "", "", "", "", "", "", "", "",
     "", "", "", "", "", "", "", "", "", "", "", "",
     "", "", "", "", "", "", "", "", "", "", "", "",
     "", "", "", "", "", "", "", "", "", "", "", "",
     "", "", "", "", "", "", "", "", "", "", "", "",
     "", "", "", "", "", "", "", "", "", "", "", "",
     "", "", "", "", "", "", "", "", "", "", "", "",
     "", "", "", "", "", "", "", "", "", "", "", "",
     "", "", "", "", "", "", "", "", "", "", "", "",
     "", "", "", "", "", "", "", "", "", "", "", "",
     "", "", "", "", "", "", "", "", "", "", "", "",
     "", "", "", "", "", "", "", "", "", "", "", "",
     "", "", "", "", "", "", "", "", "", "", "", "",
     "", "", "", "", "", "", "", "", "", "", "", "",
     "", "", "", "", "", "", "", "", "", "", "", "",
     "", "", "", "", "", "", "", "", "", "", "", "",
     "", "", "", "", "", "", "", "", "", "", "", "",
     "", "", "", "", "", "", "", "", "", "", "", "",
     "", "", "", "", "", "", "", "", "", "", "", "",
     "", "", "", "", "", "", "", "", "", "", "", "",
     "", "", "", "", "", "", "", "", "", "", "", "",
     "", "", "", "", "", "", "", "", "", "", "", "",
     "", "", "", "", "", "", "", "", "", "", "", "",
     "", "", "", "", "", "", "", "", "", "", "", "",
     "", "", "", "", "", "", "", "", "", "", "", "",
     "", "", "", "", "", "", "", "", "", "", "", "",
     "", "", "", "", "", "", "", "", "", "", "", "",
     "", "", "", "", "", "", "", "", "", "", "", "",
     "", "", "", "", "", "", "", "", "", "", "", "",
     "", "", "", "", "", "", "", "", "", "", "", "",
     "", "", "", "", "", "", "", "", "", "", "", "",
     "", "", "", "", "", "", "", "", "", "", "", "",
     "", "", "", "", "", "", "", "", "", "", "", "",
     "", "", "", "", "", "", "", "", "", "", "", "",
     "", "", "", "", "", "", "", "", "", "", "", "",
     "", "", "", "", "", "", "", "", "", "", "", "",
     "", "", "", "", "", "", "", "", "", "", "", "",
     "", "", "", "", "", "", "", "", "", "", "", "",
     "", "", "", "", "", "", "", "", "", "", "", "",
     "", "", "", "", "", "", "", "", "", "", "", "",
     "", "", "", "", "", "", "", "", "", "", "", "",
     "", "", "", "", "", "", "", "", "", "", "", "",
     "", "", "", "", "", "", "", "", "", "", "", "",
     "", "", "", "", "", "", "", "", "", "", "", "",
     "", "", "", "", "", "", "", "", "", "", "", "",
     "", "", "", "", "", "", "", "", "", "", "", "",
     "", "", "", "", "", "", "", "", "", "", "", "",
     "", "", "", "", "", "", "", "", "", "", "", "",
     "", "", "", "", "", "", "", "", "", "", "", "",
     "", "", "", "", "", "", "", "", "", "", "", "",
     "", "", "", "", "", "", "", "", "", "", "", "",
     "", "", "", "", "", "", "", "", "", "", "", "",
     "", "", "", "", "", "", "", "", "", "", "", "",
     "", "", "", "", "", "", "", "", "", "", "", "",
     "", "", "", "", "", "", "", "", "", "", "", "",
     "", "", "", "", "", "", "", "", "", "", "", "",
     "", "", "", "", "", "", "", "", "", "", "", "",
     "", "", "", "", "", "", "", "", "", "", "", "",
     "", "", "", "", "", "", "", "", "", "", "", "",
     "", "", "", "", "", "", "", "", "", "", "", "",
     "", "", "", "", "", "", "", "", "", "", "", "",
     "", "", "", "", "", "", "", "", "", "", "", "",
     "", "", "", "", "", "", "", "", "", "", "", "",
     "", "", "", "", "", "", "", "", "", "", "", "",
     "", "", "", "", "", "", "", "", "", "", "", "",
     "", "", "", "", "", "", "", "", "", "", "", "",
     "", "", "", "", "", "", "", "", "", "", "", "",
     "", "", "", "", "", "", "", "", "", "", "", "",
     "", "", "", "", "", "", "", "", "", "", "", "",
     "", "", "", "", "", "", "", "", "", "", "", "",
     "", "", "", "", "", "", "", "", "", "", "", "",
     "", "", "", "", "", "", "", "", "", "", "", "",
     "", "", "", "", "", "", "", "", "", "", "", "",
     "", "", "", "", "", "", "", "", "", "", "", "",
     "", "", "", "", "", "", "", "", "", "", "", "",
     "", "", "", "", "", "", "", "", "", "", "", "",
     "", "", "", "", "", "", "", "", "", "", "", "",
     "", "", "", "", "", "", "", "", "", "", "", "",
     "", "", "", "", "", "", "", "", "", "", "", "",
     "", "", "", "", "", "", "", "", "", "", "", "",
     "", "", "", "", "", "", "", "", "", "", "", "",
     "", "", "", "", "", "", "", "", "", "", "", "",
     "", "", "", "", "", "", "", "", "", "", "", "",
     "", "", "", "", "", "", "", "", "", "", "", "",
     "", "", "", "", "", "", "", "", "", "", "", "",
     "", "", "", "", "", "", "", "", "", "", "", "",
     "", "", "", "", "", "", "", "", "", "", "", "",
     "", "", "", "", "", "", "", "", "", "", "", "",
     "", "", "", "", "", "", "", "", "", "", "", "",
     "", "", "", "", "", "", "", "", "", "", "", "",
     "", "", "", "", "", "", "", "", "", "", "", "",
     "", "", "", "", "", "", "", "", "", "", "", "",
     "", "", "", "", "", "", "", "", "", "", "", "",
     "", "", "", "", "", "", "", "", "", "", "", "",
     "", "", "", "", "", "", "", "", "", "", "", "",
     "", "", "", "", "", "", "", "", "", "", "", "",
     "", "", "", "", "", "", "", "", "", "", "", "",
     "", "", "", "", "", "", "", "", "", "", "", "",
     "", "", "", "", "", "", "", "", "", "", "", "",
     "", "", "", "", "", "", "", "", "", "", "", "",
     "", "", "", "", "", "", "", "", "", "", "", "",
     "", "", "", "", "", "", "", "", "", "", "", "",
     "", "", "", "", "", "", "", "", "", "", "", "",
     "", "", "", "", "", "", "", "", "", "", "", "",
     "", "", "", "", "", "", "", "", "", "", "", "",
     "", "", "", "", "", "", "", "", "", "", "", "",
     "", "", "", "", "", "", "", "", "", "", "", "",
     "", "", "", "">>

ToLowerFull ==
    [c \in {LowerFrom[i] : i \in DOMAIN LowerFrom} |->
        LET i == CHOOSE j \in DOMAIN LowerFrom : LowerFrom[j] = c
        IN  <<LowerTo[i]>> \o (IF LowerTo2[i] = "" THEN <<>> ELSE <<LowerTo2[i]>>)]

\* the cased characters that are not case-ignorable
CasedLetters ==
    {"A", "B", "C", "D", "E", "F", "G", "H", "I", "J", "K", "L",
     "M", "N", "O", "P", "Q", "R", "S", "T", "U", "V", "W", "X",
     "Y", "Z", "a", "b", "c", "d", "e", "f", "g", "h", "i", "j",
     "k", "l", "m", "n", "o", "p", "q", "r", "s", "t", "u", "v",
     "w", "x", "y", "z", "ª", "µ", "º", "À", "Á", "Â", "Ã", "Ä",
     "Å", "Æ", "Ç", "È", "É", "Ê", "Ë", "Ì", "Í", "Î", "Ï", "Ð",
     "Ñ", "Ò", "Ó", "Ô", "Õ", "Ö", "Ø", "Ù", "Ú", "Û", "Ü", "Ý",
     "Þ", "ß", "à", "á", "â", "ã", "ä", "å", "æ", "ç", "è", "é",
     "ê", "ë", "ì", "í", "î", "ï", "ð", "ñ", "ò", "ó", "ô", "õ",
     "ö", "ø", "ù", "ú", "û", "ü", "ý", "þ", "ÿ", "U+0100", "U+0101", "U+0102",
     "U+0103", "U+0104", "U+0105", "U+0106", "U+0107", "U+0108", "U+0109", "U+010A", "U+010B", "U+010C", "U+010D", "U+010E",
     "U+010F", "U+0110", "U+0111", "U+0112", "U+0113", "U+0114", "U+0115", "U+0116", "U+0117", "U+0118", "U+0119", "U+011A",
     "U+011B", "U+011C", "U+011D", "U+011E", "U+011F", "U+0120", "U+0121", "U+0122", "U+0123", "U+0124", "U+0125", "U+0126",
     "U+0127", "U+0128", "U+0129", "U+012A", "U+012B", "U+012C", "U+012D", "U+012E", "U+012F", "U+0130", "U+0131", "U+0132",
     "U+0133", "U+0134", "U+0135", "U+0136", "U+0137", "U+0138", "U+0139", "U+013A", "U+013B", "U+013C", "U+013D", "U+013E",
     "U+013F", "U+0140", "U+0141", "U+0142", "U+0143", "U+0144", "U+0145", "U+0146", "U+0147", "U+0148", "U+0149", "U+014A",
     "U+014B", "U+014C", "U+014D", "U+014E", "U+014F", "U+0150", "U+0151", "U+0152", "U+0153", "U+0154", "U+0155", "U+0156",
     "U+0157", "U+0158", "U+0159", "U+015A", "U+015B", "U+015C", "U+015D", "U+015E", "U+015F", "U+0160", "U+0161", "U+0162",
     "U+0163", "U+0164", "U+0165", "U+0166", "U+0167", "U+0168", "U+0169", "U+016A", "U+016B", "U+016C", "U+016D", "U+016E",
     "U+016F", "U+0170", "U+0171", "U+0172", "U+0173", "U+0174", "U+0175", "U+0176", "U+0177", "U+0178", "U+0179", "U+017A",
     "U+017B", "U+017C", "U+017D", "U+017E", "U+017F", "U+0180", "U+0181", "U+0182", "U+0183", "U+0184", "U+0185", "U+0186",
     "U+0187", "U+0188", "U+0189", "U+018A", "U+018B", "U+018C", "U+018D", "U+018E", "U+018F", "U+0190", "U+0191", "U+0192",
     "U+0193", "U+0194", "U+0195", "U+0196", "U+0197", "U+0198", "U+0199", "U+019A", "U+019B", "U+019C", "U+019D", "U+019E",
     "U+019F", "U+01A0", "U+01A1", "U+01A2", "U+01A3", "U+01A4", "U+01A5", "U+01A6", "U+01A7", "U+01A8", "U+01A9", "U+01AA",
     "U+01AB", "U+01AC", "U+01AD", "U+01AE", "U+01AF", "U+01B0", "U+01B1", "U+01B2", "U+01B3", "U+01B4", "U+01B5", "U+01B6",
     "U+01B7", "U+01B8", "U+01B9", "U+01BA", "U+01BC", "U+01BD", "U+01BE", "U+01BF", "U+01C4", "U+01C5", "U+01C6", "U+01C7",
     "U+01C8", "U+01C9", "U+01CA", "U+01CB", "U+01CC", "U+01CD", "U+01CE", "U+01CF", "U+01D0", "U+01D1", "U+01D2", "U+01D3",
     "U+01D4", "U+01D5", "U+01D6", "U+01D7", "U+01D8", "U+01D9", "U+01DA", "U+01DB", "U+01DC", "U+01DD", "U+01DE", "U+01DF",
     "U+01E0", "U+01E1", "U+01E2", "U+01E3", "U+01E4", "U+01E5", "U+01E6", "U+01E7", "U+01E8", "U+01E9", "U+01EA", "U+01EB",
     "U+01EC", "U+01ED", "U+01EE", "U+01EF", "U+01F0", "U+01F1", "U+01F2", "U+01F3", "U+01F4", "U+01F5", "U+01F6", "U+01F7",
     "U+01F8", "U+01F9", "U+01FA", "U+01FB", "U+01FC", "U+01FD", "U+01FE", "U+01FF", "U+0200", "U+0201", "U+0202", "U+0203",
     "U+0204", "U+0205", "U+0206", "U+0207", "U+0208", "U+0209", "U+020A", "U+020B", "U+020C", "U+020D", "U+020E", "U+020F",
     "U+0210", "U+0211", "U+0212", "U+0213", "U+0214", "U+0215", "U+0216", "U+0217", "U+0218", "U+0219", "U+021A", "U+021B",
     "U+021C", "U+021D", "U+021E", "U+021F", "U+0220", "U+0221", "U+0222", "U+0223", "U+0224", "U+0225", "U+0226", "U+0227",
     "U+0228", "U+0229", "U+022A", "U+022B", "U+022C", "U+022D", "U+022E", "U+022F", "U+0230", "U+0231", "U+0232", "U+0233",
     "U+0234", "U+0235", "U+0236", "U+0237", "U+0238", "U+0239", "U+023A", "U+023B", "U+023C", "U+023D", "U+023E", "U+023F",
     "U+0240", "U+0241", "U+0242", "U+0243", "U+0244", "U+0245", "U+0246", "U+0247", "U+0248", "U+0249", "U+024A", "U+024B",
     "U+024C", "U+024D", "U+024E", "U+024F", "U+0250", "U+0251", "U+0252", "U+0253", "U+0254", "U+0255", "U+0256", "U+0257",
     "U+0258", "U+0259", "U+025A", "U+025B", "U+025C", "U+025D", "U+025E", "U+025F", "U+0260", "U+0261", "U+0262", "U+0263",
     "U+0264", "U+0265", "U+0266", "U+0267", "U+0268", "U+0269", "U+026A", "U+026B", "U+026C", "U+026D", "U+026E", "U+026F",
     "U+0270", "U+0271", "U+0272", "U+0273", "U+0274", "U+0275", "U+0276", "U+0277", "U+0278", "U+0279", "U+027A", "U+027B",
     "U+027C", "U+027D", "U+027E", "U+027F", "U+0280", "U+0281", "U+0282", "U+0283", "U+0284", "U+0285", "U+0286", "U+0287",
     "U+0288", "U+0289", "U+028A", "U+028B", "U+028C", "U+028D", "U+028E", "U+028F", "U+0290", "U+0291", "U+0292", "U+0293",
     "U+0295", "U+0296", "U+0297", "U+0298", "U+0299", "U+029A", "U+029B", "U+029C", "U+029D", "U+029E", "U+029F", "U+02A0",
     "U+02A1", "U+02A2", "U+02A3", "U+02A4", "U+02A5", "U+02A6", "U+02A7", "U+02A8", "U+02A9", "U+02AA", "U+02AB", "U+02AC",
     "U+02AD", "U+02AE", "U+02AF", "U+0370", "U+0371", "U+0372", "U+0373", "U+0376", "U+0377", "U+037B", "U+037C", "U+037D",
     "U+037F", "U+0386", "U+0388", "U+0389", "U+038A", "U+038C", "U+038E", "U+038F", "U+0390", "U+0391", "U+0392", "U+0393",
     "U+0394", "U+0395", "U+0396", "U+0397", "U+0398", "U+0399", "U+039A", "U+039B", "U+039C", "U+039D", "U+039E", "U+039F",
     "U+03A0", "U+03A1", "U+03A3", "U+03A4", "U+03A5", "U+03A6", "U+03A7", "U+03A8", "U+03A9", "U+03AA", "U+03AB", "U+03AC",
     "U+03AD", "U+03AE", "U+03AF", "U+03B0", "U+03B1", "U+03B2", "U+03B3", "U+03B4", "U+03B5", "U+03B6", "U+03B7", "U+03B8",
     "U+03B9", "U+03BA", "U+03BB", "U+03BC", "U+03BD", "U+03BE", "U+03BF", "U+03C0", "U+03C1", "U+03C2", "U+03C3", "U+03C4",
     "U+03C5", "U+03C6", "U+03C7", "U+03C8", "U+03C9", "U+03CA", "U+03CB", "U+03CC", "U+03CD", "U+03CE", "U+03CF", "U+03D0",
     "U+03D1", "U+03D2", "U+03D3", "U+03D4", "U+03D5", "U+03D6", "U+03D7", "U+03D8", "U+03D9", "U+03DA", "U+03DB", "U+03DC",
     "U+03DD", "U+03DE", "U+03DF", "U+03E0", "U+03E1", "U+03E2", "U+03E3", "U+03E4", "U+03E5", "U+03E6", "U+03E7", "U+03E8",
     "U+03E9", "U+03EA", "U+03EB", "U+03EC", "U+03ED", "U+03EE", "U+03EF", "U+03F0", "U+03F1", "U+03F2", "U+03F3", "U+03F4",
     "U+03F5", "U+03F7", "U+03F8", "U+03F9", "U+03FA", "U+03FB", "U+03FC", "U+03FD", "U+03FE", "U+03FF", "U+0400", "U+0401",
     "U+0402", "U+0403", "U+0404", "U+0405", "U+0406", "U+0407", "U+0408", "U+0409", "U+040A", "U+040B", "U+040C", "U+040D",
     "U+040E", "U+040F", "U+0410", "U+0411", "U+0412", "U+0413", "U+0414", "U+0415", "U+0416", "U+0417", "U+0418", "U+0419",
     "U+041A", "U+041B", "U+041C", "U+041D", "U+041E", "U+041F", "U+0420", "U+0421", "U+0422", "U+0423", "U+0424", "U+0425",
     "U+0426", "U+0427", "U+0428", "U+0429", "U+042A", "U+042B", "U+042C", "U+042D", "U+042E", "U+042F", "U+0430", "U+0431",
     "U+0432", "U+0433", "U+0434", "U+0435", "U+0436", "U+0437", "U+0438", "U+0439", "U+043A", "U+043B", "U+043C", "U+043D",
     "U+043E", "U+043F", "U+0440", "U+0441", "U+0442", "U+0443", "U+0444", "U+0445", "U+0446", "U+0447", "U+0448", "U+0449",
     "U+044A", "U+044B", "U+044C", "U+044D", "U+044E", "U+044F", "U+0450", "U+0451", "U+0452", "U+0453", "U+0454", "U+0455",
     "U+0456", "U+0457", "U+0458", "U+0459", "U+045A", "U+045B", "U+045C", "U+045D", "U+045E", "U+045F", "U+0460", "U+0461",
     "U+0462", "U+0463", "U+0464", "U+0465", "U+0466", "U+0467", "U+0468", "U+0469", "U+046A", "U+046B", "U+046C", "U+046D",
     "U+046E", "U+046F", "U+0470", "U+0471", "U+0472", "U+0473", "U+0474", "U+0475", "U+0476", "U+0477", "U+0478", "U+0479",
     "U+047A", "U+047B", "U+047C", "U+047D", "U+047E", "U+047F", "U+0480", "U+0481", "U+048A", "U+048B", "U+048C", "U+048D",
     "U+048E", "U+048F", "U+0490", "U+0491", "U+0492", "U+0493", "U+0494", "U+0495", "U+0496", "U+0497", "U+0498", "U+0499",
     "U+049A", "U+049B", "U+049C", "U+049D", "U+049E", "U+049F", "U+04A0", "U+04A1", "U+04A2", "U+04A3", "U+04A4", "U+04A5",
     "U+04A6", "U+04A7", "U+04A8", "U+04A9", "U+04AA", "U+04AB", "U+04AC", "U+04AD", "U+04AE", "U+04AF", "U+04B0", "U+04B1",
     "U+04B2", "U+04B3", "U+04B4", "U+04B5", "U+04B6", "U+04B7", "U+04B8", "U+04B9", "U+04BA", "U+04BB", "U+04BC", "U+04BD",
     "U+04BE", "U+04BF", "U+04C0", "U+04C1", "U+04C2", "U+04C3", "U+04C4", "U+04C5", "U+04C6", "U+04C7", "U+04C8", "U+04C9",
     "U+04CA", "U+04CB", "U+04CC", "U+04CD", "U+04CE", "U+04CF", "U+04D0", "U+04D1", "U+04D2", "U+04D3", "U+04D4", "U+04D5",
     "U+04D6", "U+04D7", "U+04D8", "U+04D9", "U+04DA", "U+04DB", "U+04DC", "U+04DD", "U+04DE", "U+04DF", "U+04E0", "U+04E1",
     "U+04E2", "U+04E3", "U+04E4", "U+04E5", "U+04E6", "U+04E7", "U+04E8", "U+04E9", "U+04EA", "U+04EB", "U+04EC", "U+04ED",
     "U+04EE", "U+04EF", "U+04F0", "U+04F1", "U+04F2", "U+04F3", "U+04F4", "U+04F5", "U+04F6", "U+04F7", "U+04F8", "U+04F9",
     "U+04FA", "U+04FB", "U+04FC", "U+04FD", "U+04FE", "U+04FF", "U+0500", "U+0501", "U+0502", "U+0503", "U+0504", "U+0505",
     "U+0506", "U+0507", "U+0508", "U+0509", "U+050A", "U+050B", "U+050C", "U+050D", "U+050E", "U+050F", "U+0510", "U+0511",
     "U+0512", "U+0513", "U+0514", "U+0515", "U+0516", "U+0517", "U+0518", "U+0519", "U+051A", "U+051B", "U+051C", "U+051D",
     "U+051E", "U+051F", "U+0520", "U+0521", "U+0522", "U+0523", "U+0524", "U+0525", "U+0526", "U+0527", "U+0528", "U+0529",
     "U+052A", "U+052B", "U+052C", "U+052D", "U+052E", "U+052F", "U+0531", "U+0532", "U+0533", "U+0534", "U+0535", "U+0536",
     "U+0537", "U+0538", "U+0539", "U+053A", "U+053B", "U+053C", "U+053D", "U+053E", "U+053F", "U+0540", "U+0541", "U+0542",
     "U+0543", "U+0544", "U+0545", "U+0546", "U+0547", "U+0548", "U+0549", "U+054A", "U+054B", "U+054C", "U+054D", "U+054E",
     "U+054F", "U+0550", "U+0551", "U+0552", "U+0553", "U+0554", "U+0555", "U+0556", "U+0560", "U+0561", "U+0562", "U+0563",
     "U+0564", "U+0565", "U+0566", "U+0567", "U+0568", "U+0569", "U+056A", "U+056B", "U+056C", "U+056D", "U+056E", "U+056F",
     "U+0570", "U+0571", "U+0572", "U+0573", "U+0574", "U+0575", "U+0576", "U+0577", "U+0578", "U+0579", "U+057A", "U+057B",
     "U+057C", "U+057D", "U+057E", "U+057F", "U+0580", "U+0581", "U+0582", "U+0583", "U+0584", "U+0585", "U+0586", "U+0587",
     "U+0588", "U+10A0", "U+10A1", "U+10A2", "U+10A3", "U+10A4", "U+10A5", "U+10A6", "U+10A7", "U+10A8", "U+10A9", "U+10AA",
     "U+10AB", "U+10AC", "U+10AD", "U+10AE", "U+10AF", "U+10B0", "U+10B1", "U+10B2", "U+10B3", "U+10B4", "U+10B5", "U+10B6",
     "U+10B7", "U+10B8", "U+10B9", "U+10BA", "U+10BB", "U+10BC", "U+10BD", "U+10BE", "U+10BF", "U+10C0", "U+10C1", "U+10C2",
     "U+10C3", "U+10C4", "U+10C5", "U+10C7", "U+10CD", "U+10D0", "U+10D1", "U+10D2", "U+10D3", "U+10D4", "U+10D5", "U+10D6",
     "U+10D7", "U+10D8", "U+10D9", "U+10DA", "U+10DB", "U+10DC", "U+10DD", "U+10DE", "U+10DF", "U+10E0", "U+10E1", "U+10E2",
     "U+10E3", "U+10E4", "U+10E5", "U+10E6", "U+10E7", "U+10E8", "U+10E9", "U+10EA", "U+10EB", "U+10EC", "U+10ED", "U+10EE",
     "U+10EF", "U+10F0", "U+10F1", "U+10F2", "U+10F3", "U+10F4", "U+10F5", "U+10F6", "U+10F7", "U+10F8", "U+10F9", "U+10FA",
     "U+10FD", "U+10FE", "U+10FF", "U+13A0", "U+13A1", "U+13A2", "U+13A3", "U+13A4", "U+13A5", "U+13A6", "U+13A7", "U+13A8",
     "U+13A9", "U+13AA", "U+13AB", "U+13AC", "U+13AD", "U+13AE", "U+13AF", "U+13B0", "U+13B1", "U+13B2", "U+13B3", "U+13B4",
     "U+13B5", "U+13B6", "U+13B7", "U+13B8", "U+13B9", "U+13BA", "U+13BB", "U+13BC", "U+13BD", "U+13BE", "U+13BF", "U+13C0",
     "U+13C1", "U+13C2", "U+13C3", "U+13C4", "U+13C5", "U+13C6", "U+13C7", "U+13C8", "U+13C9", "U+13CA", "U+13CB", "U+13CC",
     "U+13CD", "U+13CE", "U+13CF", "U+13D0", "U+13D1", "U+13D2", "U+13D3", "U+13D4", "U+13D5", "U+13D6", "U+13D7", "U+13D8",
     "U+13D9", "U+13DA", "U+13DB", "U+13DC", "U+13DD", "U+13DE", "U+13DF", "U+13E0", "U+13E1", "U+13E2", "U+13E3", "U+13E4",
     "U+13E5", "U+13E6", "U+13E7", "U+13E8", "U+13E9", "U+13EA", "U+13EB", "U+13EC", "U+13ED", "U+13EE", "U+13EF", "U+13F0",
     "U+13F1", "U+13F2", "U+13F3", "U+13F4", "U+13F5", "U+13F8", "U+13F9", "U+13FA", "U+13FB", "U+13FC", "U+13FD", "U+1C80",
     "U+1C81", "U+1C82", "U+1C83", "U+1C84", "U+1C85", "U+1C86", "U+1C87", "U+1C88", "U+1C90", "U+1C91", "U+1C92", "U+1C93",
     "U+1C94", "U+1C95", "U+1C96", "U+1C97", "U+1C98", "U+1C99", "U+1C9A", "U+1C9B", "U+1C9C", "U+1C9D", "U+1C9E", "U+1C9F",
     "U+1CA0", "U+1CA1", "U+1CA2", "U+1CA3", "U+1CA4", "U+1CA5", "U+1CA6", "U+1CA7", "U+1CA8", "U+1CA9", "U+1CAA", "U+1CAB",
     "U+1CAC", "U+1CAD", "U+1CAE", "U+1CAF", "U+1CB0", "U+1CB1", "U+1CB2", "U+1CB3", "U+1CB4", "U+1CB5", "U+1CB6", "U+1CB7",
     "U+1CB8", "U+1CB9", "U+1CBA", "U+1CBD", "U+1CBE", "U+1CBF", "U+1D00", "U+1D01", "U+1D02", "U+1D03", "U+1D04", "U+1D05",
     "U+1D06", "U+1D07", "U+1D08", "U+1D09", "U+1D0A", "U+1D0B", "U+1D0C", "U+1D0D", "U+1D0E", "U+1D0F", "U+1D10", "U+1D11",
     "U+1D12", "U+1D13", "U+1D14", "U+1D15", "U+1D16", "U+1D17", "U+1D18", "U+1D19", "U+1D1A", "U+1D1B", "U+1D1C", "U+1D1D",
     "U+1D1E", "U+1D1F", "U+1D20", "U+1D21", "U+1D22", "U+1D23", "U+1D24", "U+1D25", "U+1D26", "U+1D27", "U+1D28", "U+1D29",
     "U+1D2A", "U+1D2B", "U+1D6B", "U+1D6C", "U+1D6D", "U+1D6E", "U+1D6F", "U+1D70", "U+1D71", "U+1D72", "U+1D73", "U+1D74",
     "U+1D75", "U+1D76", "U+1D77", "U+1D79", "U+1D7A", "U+1D7B", "U+1D7C", "U+1D7D", "U+1D7E", "U+1D7F", "U+1D80", "U+1D81",
     "U+1D82", "U+1D83", "U+1D84", "U+1D85", "U+1D86", "U+1D87", "U+1D88", "U+1D89", "U+1D8A", "U+1D8B", "U+1D8C", "U+1D8D",
     "U+1D8E", "U+1D8F", "U+1D90", "U+1D91", "U+1D92", "U+1D93", "U+1D94", "U+1D95", "U+1D96", "U+1D97", "U+1D98", "U+1D99",
     "U+1D9A", "U+1E00", "U+1E01", "U+1E02", "U+1E03", "U+1E04", "U+1E05", "U+1E06", "U+1E07", "U+1E08", "U+1E09", "U+1E0A",
     "U+1E0B", "U+1E0C", "U+1E0D", "U+1E0E", "U+1E0F", "U+1E10", "U+1E11", "U+1E12", "U+1E13", "U+1E14", "U+1E15", "U+1E16",
     "U+1E17", "U+1E18", "U+1E19", "U+1E1A", "U+1E1B", "U+1E1C", "U+1E1D", "U+1E1E", "U+1E1F", "U+1E20", "U+1E21", "U+1E22",
     "U+1E23", "U+1E24", "U+1E25", "U+1E26", "U+1E27", "U+1E28", "U+1E29", "U+1E2A", "U+1E2B", "U+1E2C", "U+1E2D", "U+1E2E",
     "U+1E2F", "U+1E30", "U+1E31", "U+1E32", "U+1E33", "U+1E34", "U+1E35", "U+1E36", "U+1E37", "U+1E38", "U+1E39", "U+1E3A",
     "U+1E3B", "U+1E3C", "U+1E3D", "U+1E3E", "U+1E3F", "U+1E40", "U+1E41", "U+1E42", "U+1E43", "U+1E44", "U+1E45", "U+1E46",
     "U+1E47", "U+1E48", "U+1E49", "U+1E4A", "U+1E4B", "U+1E4C", "U+1E4D", "U+1E4E", "U+1E4F", "U+1E50", "U+1E51", "U+1E52",
     "U+1E53", "U+1E54", "U+1E55", "U+1E56", "U+1E57", "U+1E58", "U+1E59", "U+1E5A", "U+1E5B", "U+1E5C", "U+1E5D", "U+1E5E",
     "U+1E5F", "U+1E60", "U+1E61", "U+1E62", "U+1E63", "U+1E64", "U+1E65", "U+1E66", "U+1E67", "U+1E68", "U+1E69", "U+1E6A",
     "U+1E6B", "U+1E6C", "U+1E6D", "U+1E6E", "U+1E6F", "U+1E70", "U+1E71", "U+1E72", "U+1E73", "U+1E74", "U+1E75", "U+1E76",
     "U+1E77", "U+1E78", "U+1E79", "U+1E7A", "U+1E7B", "U+1E7C", "U+1E7D", "U+1E7E", "U+1E7F", "U+1E80", "U+1E81", "U+1E82",
     "U+1E83", "U+1E84", "U+1E85", "U+1E86", "U+1E87", "U+1E88", "U+1E89", "U+1E8A", "U+1E8B", "U+1E8C", "U+1E8D", "U+1E8E",
     "U+1E8F", "U+1E90", "U+1E91", "U+1E92", "U+1E93", "U+1E94", "U+1E95", "U+1E96", "U+1E97", "U+1E98", "U+1E99", "U+1E9A",
     "U+1E9B", "U+1E9C", "U+1E9D", "U+1E9E", "U+1E9F", "U+1EA0", "U+1EA1", "U+1EA2", "U+1EA3", "U+1EA4", "U+1EA5", "U+1EA6",
     "U+1EA7", "U+1EA8", "U+1EA9", "U+1EAA", "U+1EAB", "U+1EAC", "U+1EAD", "U+1EAE", "U+1EAF", "U+1EB0", "U+1EB1", "U+1EB2",
     "U+1EB3", "U+1EB4", "U+1EB5", "U+1EB6", "U+1EB7", "U+1EB8", "U+1EB9", "U+1EBA", "U+1EBB", "U+1EBC", "U+1EBD", "U+1EBE",
     "U+1EBF", "U+1EC0", "U+1EC1", "U+1EC2", "U+1EC3", "U+1EC4", "U+1EC5", "U+1EC6", "U+1EC7", "U+1EC8", "U+1EC9", "U+1ECA",
     "U+1ECB", "U+1ECC", "U+1ECD", "U+1ECE", "U+1ECF", "U+1ED0", "U+1ED1", "U+1ED2", "U+1ED3", "U+1ED4", "U+1ED5", "U+1ED6",
     "U+1ED7", "U+1ED8", "U+1ED9", "U+1EDA", "U+1EDB", "U+1EDC", "U+1EDD", "U+1EDE", "U+1EDF", "U+1EE0", "U+1EE1", "U+1EE2",
     "U+1EE3", "U+1EE4", "U+1EE5", "U+1EE6", "U+1EE7", "U+1EE8", "U+1EE9", "U+1EEA", "U+1EEB", "U+1EEC", "U+1EED", "U+1EEE",
     "U+1EEF", "U+1EF0", "U+1EF1", "U+1EF2", "U+1EF3", "U+1EF4", "U+1EF5", "U+1EF6", "U+1EF7", "U+1EF8", "U+1EF9", "U+1EFA",
     "U+1EFB", "U+1EFC", "U+1EFD", "U+1EFE", "U+1EFF", "U+1F00", "U+1F01", "U+1F02", "U+1F03", "U+1F04", "U+1F05", "U+1F06",
     "U+1F07", "U+1F08", "U+1F09", "U+1F0A", "U+1F0B", "U+1F0C", "U+1F0D", "U+1F0E", "U+1F0F", "U+1F10", "U+1F11", "U+1F12",
     "U+1F13", "U+1F14", "U+1F15", "U+1F18", "U+1F19", "U+1F1A", "U+1F1B", "U+1F1C", "U+1F1D", "U+1F20", "U+1F21", "U+1F22",
     "U+1F23", "U+1F24", "U+1F25", "U+1F26", "U+1F27", "U+1F28", "U+1F29", "U+1F2A", "U+1F2B", "U+1F2C", "U+1F2D", "U+1F2E",
     "U+1F2F", "U+1F30", "U+1F31", "U+1F32", "U+1F33", "U+1F34", "U+1F35", "U+1F36", "U+1F37", "U+1F38", "U+1F39", "U+1F3A",
     "U+1F3B", "U+1F3C", "U+1F3D", "U+1F3E", "U+1F3F", "U+1F40", "U+1F41", "U+1F42", "U+1F43", "U+1F44", "U+1F45", "U+1F48",
     "U+1F49", "U+1F4A", "U+1F4B", "U+1F4C", "U+1F4D", "U+1F50", "U+1F51", "U+1F52", "U+1F53", "U+1F54", "U+1F55", "U+1F56",
     "U+1F57", "U+1F59", "U+1F5B", "U+1F5D", "U+1F5F", "U+1F60", "U+1F61", "U+1F62", "U+1F63", "U+1F64", "U+1F65", "U+1F66",
     "U+1F67", "U+1F68", "U+1F69", "U+1F6A", "U+1F6B", "U+1F6C", "U+1F6D", "U+1F6E", "U+1F6F", "U+1F70", "U+1F71", "U+1F72",
     "U+1F73", "U+1F74", "U+1F75", "U+1F76", "U+1F77", "U+1F78", "U+1F79", "U+1F7A", "U+1F7B", "U+1F7C", "U+1F7D", "U+1F80",
     "U+1F81", "U+1F82", "U+1F83", "U+1F84", "U+1F85", "U+1F86", "U+1F87", "U+1F88", "U+1F89", "U+1F8A", "U+1F8B", "U+1F8C",
     "U+1F8D", "U+1F8E", "U+1F8F", "U+1F90", "U+1F91", "U+1F92", "U+1F93", "U+1F94", "U+1F95", "U+1F96", "U+1F97", "U+1F98",
     "U+1F99", "U+1F9A", "U+1F9B", "U+1F9C", "U+1F9D", "U+1F9E", "U+1F9F", "U+1FA0", "U+1FA1", "U+1FA2", "U+1FA3", "U+1FA4",
     "U+1FA5", "U+1FA6", "U+1FA7", "U+1FA8", "U+1FA9", "U+1FAA", "U+1FAB", "U+1FAC", "U+1FAD", "U+1FAE", "U+1FAF", "U+1FB0",
     "U+1FB1", "U+1FB2", "U+1FB3", "U+1FB4", "U+1FB6", "U+1FB7", "U+1FB8", "U+1FB9", "U+1FBA", "U+1FBB", "U+1FBC", "U+1FBE",
     "U+1FC2", "U+1FC3", "U+1FC4", "U+1FC6", "U+1FC7", "U+1FC8", "U+1FC9", "U+1FCA", "U+1FCB", "U+1FCC", "U+1FD0", "U+1FD1",
     "U+1FD2", "U+1FD3", "U+1FD6", "U+1FD7", "U+1FD8", "U+1FD9", "U+1FDA", "U+1FDB", "U+1FE0", "U+1FE1", "U+1FE2", "U+1FE3",
     "U+1FE4", "U+1FE5", "U+1FE6", "U+1FE7", "U+1FE8", "U+1FE9", "U+1FEA", "U+1FEB", "U+1FEC", "U+1FF2", "U+1FF3", "U+1FF4",
     "U+1FF6", "U+1FF7", "U+1FF8", "U+1FF9", "U+1FFA", "U+1FFB", "U+1FFC", "U+2102", "U+2107", "U+210A", "U+210B", "U+210C",
     "U+210D", "U+210E", "U+210F", "U+2110", "U+2111", "U+2112", "U+2113", "U+2115", "U+2119", "U+211A", "U+211B", "U+211C",
     "U+211D", "U+2124", "U+2126", "U+2128", "U+212A", "U+212B", "U+212C", "U+212D", "U+212F", "U+2130", "U+2131", "U+2132",
     "U+2133", "U+2134", "U+2139", "U+213C", "U+213D", "U+213E", "U+213F", "U+2145", "U+2146", "U+2147", "U+2148", "U+2149",
     "U+214E", "U+2160", "U+2161", "U+2162", "U+2163", "U+2164", "U+2165", "U+2166", "U+2167", "U+2168", "U+2169", "U+216A",
     "U+216B", "U+216C", "U+216D", "U+216E", "U+216F", "U+2170", "U+2171", "U+2172", "U+2173", "U+2174", "U+2175", "U+2176",
     "U+2177", "U+2178", "U+2179", "U+217A", "U+217B", "U+217C", "U+217D", "U+217E", "U+217F", "U+2183", "U+2184", "U+24B6",
     "U+24B7", "U+24B8", "U+24B9", "U+24BA", "U+24BB", "U+24BC", "U+24BD", "U+24BE", "U+24BF", "U+24C0", "U+24C1", "U+24C2",
     "U+24C3", "U+24C4", "U+24C5", "U+24C6", "U+24C7", "U+24C8", "U+24C9", "U+24CA", "U+24CB", "U+24CC", "U+24CD", "U+24CE",
     "U+24CF", "U+24D0", "U+24D1", "U+24D2", "U+24D3", "U+24D4", "U+24D5", "U+24D6", "U+24D7", "U+24D8", "U+24D9", "U+24DA",
     "U+24DB", "U+24DC", "U+24DD", "U+24DE", "U+24DF", "U+24E0", "U+24E1", "U+24E2", "U+24E3", "U+24E4", "U+24E5", "U+24E6",
     "U+24E7", "U+24E8", "U+24E9", "U+2C00", "U+2C01", "U+2C02", "U+2C03", "U+2C04", "U+2C05", "U+2C06", "U+2C07", "U+2C08",
     "U+2C09", "U+2C0A", "U+2C0B", "U+2C0C", "U+2C0D", "U+2C0E", "U+2C0F", "U+2C10", "U+2C11", "U+2C12", "U+2C13", "U+2C14",
     "U+2C15", "U+2C16", "U+2C17", "U+2C18", "U+2C19", "U+2C1A", "U+2C1B", "U+2C1C", "U+2C1D", "U+2C1E", "U+2C1F", "U+2C20",
     "U+2C21", "U+2C22", "U+2C23", "U+2C24", "U+2C25", "U+2C26", "U+2C27", "U+2C28", "U+2C29", "U+2C2A", "U+2C2B", "U+2C2C",
     "U+2C2D", "U+2C2E", "U+2C2F", "U+2C30", "U+2C31", "U+2C32", "U+2C33", "U+2C34", "U+2C35", "U+2C36", "U+2C37", "U+2C38",
     "U+2C39", "U+2C3A", "U+2C3B", "U+2C3C", "U+2C3D", "U+2C3E", "U+2C3F", "U+2C40", "U+2C41", "U+2C42", "U+2C43", "U+2C44",
     "U+2C45", "U+2C46", "U+2C47", "U+2C48", "U+2C49", "U+2C4A", "U+2C4B", "U+2C4C", "U+2C4D", "U+2C4E", "U+2C4F", "U+2C50",
     "U+2C51", "U+2C52", "U+2C53", "U+2C54", "U+2C55", "U+2C56", "U+2C57", "U+2C58", "U+2C59", "U+2C5A", "U+2C5B", "U+2C5C",
     "U+2C5D", "U+2C5E", "U+2C5F", "U+2C60", "U+2C61", "U+2C62", "U+2C63", "U+2C64", "U+2C65", "U+2C66", "U+2C67", "U+2C68",
     "U+2C69", "U+2C6A", "U+2C6B", "U+2C6C", "U+2C6D", "U+2C6E", "U+2C6F", "U+2C70", "U+2C71", "U+2C72", "U+2C73", "U+2C74",
     "U+2C75", "U+2C76", "U+2C77", "U+2C78", "U+2C79", "U+2C7A", "U+2C7B", "U+2C7E", "U+2C7F", "U+2C80", "U+2C81", "U+2C82",
     "U+2C83", "U+2C84", "U+2C85", "U+2C86", "U+2C87", "U+2C88", "U+2C89", "U+2C8A", "U+2C8B", "U+2C8C", "U+2C8D", "U+2C8E",
     "U+2C8F", "U+2C90", "U+2C91", "U+2C92", "U+2C93", "U+2C94", "U+2C95", "U+2C96", "U+2C97", "U+2C98", "U+2C99", "U+2C9A",
     "U+2C9B", "U+2C9C", "U+2C9D", "U+2C9E", "U+2C9F", "U+2CA0", "U+2CA1", "U+2CA2", "U+2CA3", "U+2CA4", "U+2CA5", "U+2CA6",
     "U+2CA7", "U+2CA8", "U+2CA9", "U+2CAA", "U+2CAB", "U+2CAC", "U+2CAD", "U+2CAE", "U+2CAF", "U+2CB0", "U+2CB1", "U+2CB2",
     "U+2CB3", "U+2CB4", "U+2CB5", "U+2CB6", "U+2CB7", "U+2CB8", "U+2CB9", "U+2CBA", "U+2CBB", "U+2CBC", "U+2CBD", "U+2CBE",
     "U+2CBF", "U+2CC0", "U+2CC1", "U+2CC2", "U+2CC3", "U+2CC4", "U+2CC5", "U+2CC6", "U+2CC7", "U+2CC8", "U+2CC9", "U+2CCA",
     "U+2CCB", "U+2CCC", "U+2CCD", "U+2CCE", "U+2CCF", "U+2CD0", "U+2CD1", "U+2CD2", "U+2CD3", "U+2CD4", "U+2CD5", "U+2CD6",
     "U+2CD7", "U+2CD8", "U+2CD9", "U+2CDA", "U+2CDB", "U+2CDC", "U+2CDD", "U+2CDE", "U+2CDF", "U+2CE0", "U+2CE1", "U+2CE2",
     "U+2CE3", "U+2CE4", "U+2CEB", "U+2CEC", "U+2CED", "U+2CEE", "U+2CF2", "U+2CF3", "U+2D00", "U+2D01", "U+2D02", "U+2D03",
     "U+2D04", "U+2D05", "U+2D06", "U+2D07", "U+2D08", "U+2D09", "U+2D0A", "U+2D0B", "U+2D0C", "U+2D0D", "U+2D0E", "U+2D0F",
     "U+2D10", "U+2D11", "U+2D12", "U+2D13", "U+2D14", "U+2D15", "U+2D16", "U+2D17", "U+2D18", "U+2D19", "U+2D1A", "U+2D1B",
     "U+2D1C", "U+2D1D", "U+2D1E", "U+2D1F", "U+2D20", "U+2D21", "U+2D22", "U+2D23", "U+2D24", "U+2D25", "U+2D27", "U+2D2D",
     "U+A640", "U+A641", "U+A642", "U+A643", "U+A644", "U+A645", "U+A646", "U+A647", "U+A648", "U+A649", "U+A64A", "U+A64B",
     "U+A64C", "U+A64D", "U+A64E", "U+A64F", "U+A650", "U+A651", "U+A652", "U+A653", "U+A654", "U+A655", "U+A656", "U+A657",
     "U+A658", "U+A659", "U+A65A", "U+A65B", "U+A65C", "U+A65D", "U+A65E", "U+A65F", "U+A660", "U+A661", "U+A662", "U+A663",
     "U+A664", "U+A665", "U+A666", "U+A667", "U+A668", "U+A669", "U+A66A", "U+A66B", "U+A66C", "U+A66D", "U+A680", "U+A681",
     "U+A682", "U+A683", "U+A684", "U+A685", "U+A686", "U+A687", "U+A688", "U+A689", "U+A68A", "U+A68B", "U+A68C", "U+A68D",
     "U+A68E", "U+A68F", "U+A690", "U+A691", "U+A692", "U+A693", "U+A694", "U+A695", "U+A696", "U+A697", "U+A698", "U+A699",
     "U+A69A", "U+A69B", "U+A722", "U+A723", "U+A724", "U+A725", "U+A726", "U+A727", "U+A728", "U+A729", "U+A72A", "U+A72B",
     "U+A72C", "U+A72D", "U+A72E", "U+A72F", "U+A730", "U+A731", "U+A732", "U+A733", "U+A734", "U+A735", "U+A736", "U+A737",
     "U+A738", "U+A739", "U+A73A", "U+A73B", "U+A73C", "U+A73D", "U+A73E", "U+A73F", "U+A740", "U+A741", "U+A742", "U+A743",
     "U+A744", "U+A745", "U+A746", "U+A747", "U+A748", "U+A749", "U+A74A", "U+A74B", "U+A74C", "U+A74D", "U+A74E", "U+A74F",
     "U+A750", "U+A751", "U+A752", "U+A753", "U+A754", "U+A755", "U+A756", "U+A757", "U+A758", "U+A759", "U+A75A", "U+A75B",
     "U+A75C", "U+A75D", "U+A75E", "U+A75F", "U+A760", "U+A761", "U+A762", "U+A763", "U+A764", "U+A765", "U+A766", "U+A767",
     "U+A768", "U+A769", "U+A76A", "U+A76B", "U+A76C", "U+A76D", "U+A76E", "U+A76F", "U+A771", "U+A772", "U+A773", "U+A774",
     "U+A775", "U+A776", "U+A777", "U+A778", "U+A779", "U+A77A", "U+A77B", "U+A77C", "U+A77D", "U+A77E", "U+A77F", "U+A780",
     "U+A781", "U+A782", "U+A783", "U+A784", "U+A785", "U+A786", "U+A787", "U+A78B", "U+A78C", "U+A78D", "U+A78E", "U+A790",
     "U+A791", "U+A792", "U+A793", "U+A794", "U+A795", "U+A796", "U+A797", "U+A798", "U+A799", "U+A79A", "U+A79B", "U+A79C",
     "U+A79D", "U+A79E", "U+A79F", "U+A7A0", "U+A7A1", "U+A7A2", "U+A7A3", "U+A7A4", "U+A7A5", "U+A7A6", "U+A7A7", "U+A7A8",
     "U+A7A9", "U+A7AA", "U+A7AB", "U+A7AC", "U+A7AD", "U+A7AE", "U+A7AF", "U+A7B0", "U+A7B1", "U+A7B2", "U+A7B3", "U+A7B4",
     "U+A7B5", "U+A7B6", "U+A7B7", "U+A7B8", "U+A7B9", "U+A7BA", "U+A7BB", "U+A7BC", "U+A7BD", "U+A7BE", "U+A7BF", "U+A7C0",
     "U+A7C1", "U+A7C2", "U+A7C3", "U+A7C4", "U+A7C5", "U+A7C6", "U+A7C7", "U+A7C8", "U+A7C9", "U+A7CA", "U+A7D0", "U+A7D1",
     "U+A7D3", "U+A7D5", "U+A7D6", "U+A7D7", "U+A7D8", "U+A7D9", "U+A7F5", "U+A7F6", "U+A7FA", "U+AB30", "U+AB31", "U+AB32",
     "U+AB33", "U+AB34", "U+AB35", "U+AB36", "U+AB37", "U+AB38", "U+AB39", "U+AB3A", "U+AB3B", "U+AB3C", "U+AB3D", "U+AB3E",
     "U+AB3F", "U+AB40", "U+AB41", "U+AB42", "U+AB43", "U+AB44", "U+AB45", "U+AB46", "U+AB47", "U+AB48", "U+AB49", "U+AB4A",
     "U+AB4B", "U+AB4C", "U+AB4D", "U+AB4E", "U+AB4F", "U+AB50", "U+AB51", "U+AB52", "U+AB53", "U+AB54", "U+AB55", "U+AB56",
     "U+AB57", "U+AB58", "U+AB59", "U+AB5A", "U+AB60", "U+AB61", "U+AB62", "U+AB63", "U+AB64", "U+AB65", "U+AB66", "U+AB67",
     "U+AB68", "U+AB70", "U+AB71", "U+AB72", "U+AB73", "U+AB74", "U+AB75", "U+AB76", "U+AB77", "U+AB78", "U+AB79", "U+AB7A",
     "U+AB7B", "U+AB7C", "U+AB7D", "U+AB7E", "U+AB7F", "U+AB80", "U+AB81", "U+AB82", "U+AB83", "U+AB84", "U+AB85", "U+AB86",
     "U+AB87", "U+AB88", "U+AB89", "U+AB8A", "U+AB8B", "U+AB8C", "U+AB8D", "U+AB8E", "U+AB8F", "U+AB90", "U+AB91", "U+AB92",
     "U+AB93", "U+AB94", "U+AB95", "U+AB96", "U+AB97", "U+AB98", "U+AB99", "U+AB9A", "U+AB9B", "U+AB9C", "U+AB9D", "U+AB9E",
     "U+AB9F", "U+ABA0", "U+ABA1", "U+ABA2", "U+ABA3", "U+ABA4", "U+ABA5", "U+ABA6", "U+ABA7", "U+ABA8", "U+ABA9", "U+ABAA",
     "U+ABAB", "U+ABAC", "U+ABAD", "U+ABAE", "U+ABAF", "U+ABB0", "U+ABB1", "U+ABB2", "U+ABB3", "U+ABB4", "U+ABB5", "U+ABB6",
     "U+ABB7", "U+ABB8", "U+ABB9", "U+ABBA", "U+ABBB", "U+ABBC", "U+ABBD", "U+ABBE", "U+ABBF", "U+FB00", "U+FB01", "U+FB02",
     "U+FB03", "U+FB04", "U+FB05", "U+FB06", "U+FB13", "U+FB14", "U+FB15", "U+FB16", "U+FB17", "U+FF21", "U+FF22", "U+FF23",
     "U+FF24", "U+FF25", "U+FF26", "U+FF27", "U+FF28", "U+FF29", "U+FF2A", "U+FF2B", "U+FF2C", "U+FF2D", "U+FF2E", "U+FF2F",
     "U+FF30", "U+FF31", "U+FF32", "U+FF33", "U+FF34", "U+FF35", "U+FF36", "U+FF37", "U+FF38", "U+FF39", "U+FF3A", "U+FF41",
     "U+FF42", "U+FF43", "U+FF44", "U+FF45", "U+FF46", "U+FF47", "U+FF48", "U+FF49", "U+FF4A", "U+FF4B", "U+FF4C", "U+FF4D",
     "U+FF4E", "U+FF4F", "U+FF50", "U+FF51", "U+FF52", "U+FF53", "U+FF54", "U+FF55", "U+FF56", "U+FF57", "U+FF58", "U+FF59",
     "U+FF5A", "U+10400", "U+10401", "U+10402", "U+10403", "U+10404", "U+10405", "U+10406", "U+10407", "U+10408", "U+10409", "U+1040A",
     "U+1040B", "U+1040C", "U+1040D", "U+1040E", "U+1040F", "U+10410", "U+10411", "U+10412", "U+10413", "U+10414", "U+10415", "U+10416",
     "U+10417", "U+10418", "U+10419", "U+1041A", "U+1041B", "U+1041C", "U+1041D", "U+1041E", "U+1041F", "U+10420", "U+10421", "U+10422",
     "U+10423", "U+10424", "U+10425", "U+10426", "U+10427", "U+10428", "U+10429", "U+1042A", "U+1042B", "U+1042C", "U+1042D", "U+1042E",
     "U+1042F", "U+10430", "U+10431", "U+10432", "U+10433", "U+10434", "U+10435", "U+10436", "U+10437", "U+10438", "U+10439", "U+1043A",
     "U+1043B", "U+1043C", "U+1043D", "U+1043E", "U+1043F", "U+10440", "U+10441", "U+10442", "U+10443", "U+10444", "U+10445", "U+10446",
     "U+10447", "U+10448", "U+10449", "U+1044A", "U+1044B", "U+1044C", "U+1044D", "U+1044E", "U+1044F", "U+104B0", "U+104B1", "U+104B2",
     "U+104B3", "U+104B4", "U+104B5", "U+104B6", "U+104B7", "U+104B8", "U+104B9", "U+104BA", "U+104BB", "U+104BC", "U+104BD", "U+104BE",
     "U+104BF", "U+104C0", "U+104C1", "U+104C2", "U+104C3", "U+104C4", "U+104C5", "U+104C6", "U+104C7", "U+104C8", "U+104C9", "U+104CA",
     "U+104CB", "U+104CC", "U+104CD", "U+104CE", "U+104CF", "U+104D0", "U+104D1", "U+104D2", "U+104D3", "U+104D8", "U+104D9", "U+104DA",
     "U+104DB", "U+104DC", "U+104DD", "U+104DE", "U+104DF", "U+104E0", "U+104E1", "U+104E2", "U+104E3", "U+104E4", "U+104E5", "U+104E6",
     "U+104E7", "U+104E8", "U+104E9", "U+104EA", "U+104EB", "U+104EC", "U+104ED", "U+104EE", "U+104EF", "U+104F0", "U+104F1", "U+104F2",
     "U+104F3", "U+104F4", "U+104F5", "U+104F6", "U+104F7", "U+104F8", "U+104F9", "U+104FA", "U+104FB", "U+10570", "U+10571", "U+10572",
     "U+10573", "U+10574", "U+10575", "U+10576", "U+10577", "U+10578", "U+10579", "U+1057A", "U+1057C", "U+1057D", "U+1057E", "U+1057F",
     "U+10580", "U+10581", "U+10582", "U+10583", "U+10584", "U+10585", "U+10586", "U+10587", "U+10588", "U+10589", "U+1058A", "U+1058C",
     "U+1058D", "U+1058E", "U+1058F", "U+10590", "U+10591", "U+10592", "U+10594", "U+10595", "U+10597", "U+10598", "U+10599", "U+1059A",
     "U+1059B", "U+1059C", "U+1059D", "U+1059E", "U+1059F", "U+105A0", "U+105A1", "U+105A3", "U+105A4", "U+105A5", "U+105A6", "U+105A7",
     "U+105A8", "U+105A9", "U+105AA", "U+105AB", "U+105AC", "U+105AD", "U+105AE", "U+105AF", "U+105B0", "U+105B1", "U+105B3", "U+105B4",
     "U+105B5", "U+105B6", "U+105B7", "U+105B8", "U+105B9", "U+105BB", "U+105BC", "U+10C80", "U+10C81", "U+10C82", "U+10C83", "U+10C84",
     "U+10C85", "U+10C86", "U+10C87", "U+10C88", "U+10C89", "U+10C8A", "U+10C8B", "U+10C8C", "U+10C8D", "U+10C8E", "U+10C8F", "U+10C90",
     "U+10C91", "U+10C92", "U+10C93", "U+10C94", "U+10C95", "U+10C96", "U+10C97", "U+10C98", "U+10C99", "U+10C9A", "U+10C9B", "U+10C9C",
     "U+10C9D", "U+10C9E", "U+10C9F", "U+10CA0", "U+10CA1", "U+10CA2", "U+10CA3", "U+10CA4", "U+10CA5", "U+10CA6", "U+10CA7", "U+10CA8",
     "U+10CA9", "U+10CAA", "U+10CAB", "U+10CAC", "U+10CAD", "U+10CAE", "U+10CAF", "U+10CB0", "U+10CB1", "U+10CB2", "U+10CC0", "U+10CC1",
     "U+10CC2", "U+10CC3", "U+10CC4", "U+10CC5", "U+10CC6", "U+10CC7", "U+10CC8", "U+10CC9", "U+10CCA", "U+10CCB", "U+10CCC", "U+10CCD",
     "U+10CCE", "U+10CCF", "U+10CD0", "U+10CD1", "U+10CD2", "U+10CD3", "U+10CD4", "U+10CD5", "U+10CD6", "U+10CD7", "U+10CD8", "U+10CD9",
     "U+10CDA", "U+10CDB", "U+10CDC", "U+10CDD", "U+10CDE", "U+10CDF", "U+10CE0", "U+10CE1", "U+10CE2", "U+10CE3", "U+10CE4", "U+10CE5",
     "U+10CE6", "U+10CE7", "U+10CE8", "U+10CE9", "U+10CEA", "U+10CEB", "U+10CEC", "U+10CED", "U+10CEE", "U+10CEF", "U+10CF0", "U+10CF1",
     "U+10CF2", "U+118A0", "U+118A1", "U+118A2", "U+118A3", "U+118A4", "U+118A5", "U+118A6", "U+118A7", "U+118A8", "U+118A9", "U+118AA",
     "U+118AB", "U+118AC", "U+118AD", "U+118AE", "U+118AF", "U+118B0", "U+118B1", "U+118B2", "U+118B3", "U+118B4", "U+118B5", "U+118B6",
     "U+118B7", "U+118B8", "U+118B9", "U+118BA", "U+118BB", "U+118BC", "U+118BD", "U+118BE", "U+118BF", "U+118C0", "U+118C1", "U+118C2",
     "U+118C3", "U+118C4", "U+118C5", "U+118C6", "U+118C7", "U+118C8", "U+118C9", "U+118CA", "U+118CB", "U+118CC", "U+118CD", "U+118CE",
     "U+118CF", "U+118D0", "U+118D1", "U+118D2", "U+118D3", "U+118D4", "U+118D5", "U+118D6", "U+118D7", "U+118D8", "U+118D9", "U+118DA",
     "U+118DB", "U+118DC", "U+118DD", "U+118DE", "U+118DF", "U+16E40", "U+16E41", "U+16E42", "U+16E43", "U+16E44", "U+16E45", "U+16E46",
     "U+16E47", "U+16E48", "U+16E49", "U+16E4A", "U+16E4B", "U+16E4C", "U+16E4D", "U+16E4E", "U+16E4F", "U+16E50", "U+16E51", "U+16E52",
     "U+16E53", "U+16E54", "U+16E55", "U+16E56", "U+16E57", "U+16E58", "U+16E59", "U+16E5A", "U+16E5B", "U+16E5C", "U+16E5D", "U+16E5E",
     "U+16E5F", "U+16E60", "U+16E61", "U+16E62", "U+16E63", "U+16E64", "U+16E65", "U+16E66", "U+16E67", "U+16E68", "U+16E69", "U+16E6A",
     "U+16E6B", "U+16E6C", "U+16E6D", "U+16E6E", "U+16E6F", "U+16E70", "U+16E71", "U+16E72", "U+16E73", "U+16E74", "U+16E75", "U+16E76",
     "U+16E77", "U+16E78", "U+16E79", "U+16E7A", "U+16E7B", "U+16E7C", "U+16E7D", "U+16E7E", "U+16E7F", "U+1D400", "U+1D401", "U+1D402",
     "U+1D403", "U+1D404", "U+1D405", "U+1D406", "U+1D407", "U+1D408", "U+1D409", "U+1D40A", "U+1D40B", "U+1D40C", "U+1D40D", "U+1D40E",
     "U+1D40F", "U+1D410", "U+1D411", "U+1D412", "U+1D413", "U+1D414", "U+1D415", "U+1D416", "U+1D417", "U+1D418", "U+1D419", "U+1D41A",
     "U+1D41B", "U+1D41C", "U+1D41D", "U+1D41E", "U+1D41F", "U+1D420", "U+1D421", "U+1D422", "U+1D423", "U+1D424", "U+1D425", "U+1D426",
     "U+1D427", "U+1D428", "U+1D429", "U+1D42A", "U+1D42B", "U+1D42C", "U+1D42D", "U+1D42E", "U+1D42F", "U+1D430", "U+1D431", "U+1D432",
     "U+1D433", "U+1D434", "U+1D435", "U+1D436", "U+1D437", "U+1D438", "U+1D439", "U+1D43A", "U+1D43B", "U+1D43C", "U+1D43D", "U+1D43E",
     "U+1D43F", "U+1D440", "U+1D441", "U+1D442", "U+1D443", "U+1D444", "U+1D445", "U+1D446", "U+1D447", "U+1D448", "U+1D449", "U+1D44A",
     "U+1D44B", "U+1D44C", "U+1D44D", "U+1D44E", "U+1D44F", "U+1D450", "U+1D451", "U+1D452", "U+1D453", "U+1D454", "U+1D456", "U+1D457",
     "U+1D458", "U+1D459", "U+1D45A", "U+1D45B", "U+1D45C", "U+1D45D", "U+1D45E", "U+1D45F", "U+1D460", "U+1D461", "U+1D462", "U+1D463",
     "U+1D464", "U+1D465", "U+1D466", "U+1D467", "U+1D468", "U+1D469", "U+1D46A", "U+1D46B", "U+1D46C", "U+1D46D", "U+1D46E", "U+1D46F",
     "U+1D470", "U+1D471", "U+1D472", "U+1D473", "U+1D474", "U+1D475", "U+1D476", "U+1D477", "U+1D478", "U+1D479", "U+1D47A", "U+1D47B",
     "U+1D47C", "U+1D47D", "U+1D47E", "U+1D47F", "U+1D480", "U+1D481", "U+1D482", "U+1D483", "U+1D484", "U+1D485", "U+1D486", "U+1D487",
     "U+1D488", "U+1D489", "U+1D48A", "U+1D48B", "U+1D48C", "U+1D48D", "U+1D48E", "U+1D48F", "U+1D490", "U+1D491", "U+1D492", "U+1D493",
     "U+1D494", "U+1D495", "U+1D496", "U+1D497", "U+1D498", "U+1D499", "U+1D49A", "U+1D49B", "U+1D49C", "U+1D49E", "U+1D49F", "U+1D4A2",
     "U+1D4A5", "U+1D4A6", "U+1D4A9", "U+1D4AA", "U+1D4AB", "U+1D4AC", "U+1D4AE", "U+1D4AF", "U+1D4B0", "U+1D4B1", "U+1D4B2", "U+1D4B3",
     "U+1D4B4", "U+1D4B5", "U+1D4B6", "U+1D4B7", "U+1D4B8", "U+1D4B9", "U+1D4BB", "U+1D4BD", "U+1D4BE", "U+1D4BF", "U+1D4C0", "U+1D4C1",
     "U+1D4C2", "U+1D4C3", "U+1D4C5", "U+1D4C6", "U+1D4C7", "U+1D4C8", "U+1D4C9", "U+1D4CA", "U+1D4CB", "U+1D4CC", "U+1D4CD", "U+1D4CE",
     "U+1D4CF", "U+1D4D0", "U+1D4D1", "U+1D4D2", "U+1D4D3", "U+1D4D4", "U+1D4D5", "U+1D4D6", "U+1D4D7", "U+1D4D8", "U+1D4D9", "U+1D4DA",
     "U+1D4DB", "U+1D4DC", "U+1D4DD", "U+1D4DE", "U+1D4DF", "U+1D4E0", "U+1D4E1", "U+1D4E2", "U+1D4E3", "U+1D4E4", "U+1D4E5", "U+1D4E6",
     "U+1D4E7", "U+1D4E8", "U+1D4E9", "U+1D4EA", "U+1D4EB", "U+1D4EC", "U+1D4ED", "U+1D4EE", "U+1D4EF", "U+1D4F0", "U+1D4F1", "U+1D4F2",
     "U+1D4F3", "U+1D4F4", "U+1D4F5", "U+1D4F6", "U+1D4F7", "U+1D4F8", "U+1D4F9", "U+1D4FA", "U+1D4FB", "U+1D4FC", "U+1D4FD", "U+1D4FE",
     "U+1D4FF", "U+1D500", "U+1D501", "U+1D502", "U+1D503", "U+1D504", "U+1D505", "U+1D507", "U+1D508", "U+1D509", "U+1D50A", "U+1D50D",
     "U+1D50E", "U+1D50F", "U+1D510", "U+1D511", "U+1D512", "U+1D513", "U+1D514", "U+1D516", "U+1D517", "U+1D518", "U+1D519", "U+1D51A",
     "U+1D51B", "U+1D51C", "U+1D51E", "U+1D51F", "U+1D520", "U+1D521", "U+1D522", "U+1D523", "U+1D524", "U+1D525", "U+1D526", "U+1D527",
     "U+1D528", "U+1D529", "U+1D52A", "U+1D52B", "U+1D52C", "U+1D52D", "U+1D52E", "U+1D52F", "U+1D530", "U+1D531", "U+1D532", "U+1D533",
     "U+1D534", "U+1D535", "U+1D536", "U+1D537", "U+1D538", "U+1D539", "U+1D53B", "U+1D53C", "U+1D53D", "U+1D53E", "U+1D540", "U+1D541",
     "U+1D542", "U+1D543", "U+1D544", "U+1D546", "U+1D54A", "U+1D54B", "U+1D54C", "U+1D54D", "U+1D54E", "U+1D54F", "U+1D550", "U+1D552",
     "U+1D553", "U+1D554", "U+1D555", "U+1D556", "U+1D557", "U+1D558", "U+1D559", "U+1D55A", "U+1D55B", "U+1D55C", "U+1D55D", "U+1D55E",
     "U+1D55F", "U+1D560", "U+1D561", "U+1D562", "U+1D563", "U+1D564", "U+1D565", "U+1D566", "U+1D567", "U+1D568", "U+1D569", "U+1D56A",
     "U+1D56B", "U+1D56C", "U+1D56D", "U+1D56E", "U+1D56F", "U+1D570", "U+1D571", "U+1D572", "U+1D573", "U+1D574", "U+1D575", "U+1D576",
     "U+1D577", "U+1D578", "U+1D579", "U+1D57A", "U+1D57B", "U+1D57C", "U+1D57D", "U+1D57E", "U+1D57F", "U+1D580", "U+1D581", "U+1D582",
     "U+1D583", "U+1D584", "U+1D585", "U+1D586", "U+1D587", "U+1D588", "U+1D589", "U+1D58A", "U+1D58B", "U+1D58C", "U+1D58D", "U+1D58E",
     "U+1D58F", "U+1D590", "U+1D591", "U+1D592", "U+1D593", "U+1D594", "U+1D595", "U+1D596", "U+1D597", "U+1D598", "U+1D599", "U+1D59A",
     "U+1D59B", "U+1D59C", "U+1D59D", "U+1D59E", "U+1D59F", "U+1D5A0", "U+1D5A1", "U+1D5A2", "U+1D5A3", "U+1D5A4", "U+1D5A5", "U+1D5A6",
     "U+1D5A7", "U+1D5A8", "U+1D5A9", "U+1D5AA", "U+1D5AB", "U+1D5AC", "U+1D5AD", "U+1D5AE", "U+1D5AF", "U+1D5B0", "U+1D5B1", "U+1D5B2",
     "U+1D5B3", "U+1D5B4", "U+1D5B5", "U+1D5B6", "U+1D5B7", "U+1D5B8", "U+1D5B9", "U+1D5BA", "U+1D5BB", "U+1D5BC", "U+1D5BD", "U+1D5BE",
     "U+1D5BF", "U+1D5C0", "U+1D5C1", "U+1D5C2", "U+1D5C3", "U+1D5C4", "U+1D5C5", "U+1D5C6", "U+1D5C7", "U+1D5C8", "U+1D5C9", "U+1D5CA",
     "U+1D5CB", "U+1D5CC", "U+1D5CD", "U+1D5CE", "U+1D5CF", "U+1D5D0", "U+1D5D1", "U+1D5D2", "U+1D5D3", "U+1D5D4", "U+1D5D5", "U+1D5D6",
     "U+1D5D7", "U+1D5D8", "U+1D5D9", "U+1D5DA", "U+1D5DB", "U+1D5DC", "U+1D5DD", "U+1D5DE", "U+1D5DF", "U+1D5E0", "U+1D5E1", "U+1D5E2",
     "U+1D5E3", "U+1D5E4", "U+1D5E5", "U+1D5E6", "U+1D5E7", "U+1D5E8", "U+1D5E9", "U+1D5EA", "U+1D5EB", "U+1D5EC", "U+1D5ED", "U+1D5EE",
     "U+1D5EF", "U+1D5F0", "U+1D5F1", "U+1D5F2", "U+1D5F3", "U+1D5F4", "U+1D5F5", "U+1D5F6", "U+1D5F7", "U+1D5F8", "U+1D5F9", "U+1D5FA",
     "U+1D5FB", "U+1D5FC", "U+1D5FD", "U+1D5FE", "U+1D5FF", "U+1D600", "U+1D601", "U+1D602", "U+1D603", "U+1D604", "U+1D605", "U+1D606",
     "U+1D607", "U+1D608", "U+1D609", "U+1D60A", "U+1D60B", "U+1D60C", "U+1D60D", "U+1D60E", "U+1D60F", "U+1D610", "U+1D611", "U+1D612",
     "U+1D613", "U+1D614", "U+1D615", "U+1D616", "U+1D617", "U+1D618", "U+1D619", "U+1D61A", "U+1D61B", "U+1D61C", "U+1D61D", "U+1D61E",
     "U+1D61F", "U+1D620", "U+1D621", "U+1D622", "U+1D623", "U+1D624", "U+1D625", "U+1D626", "U+1D627", "U+1D628", "U+1D629", "U+1D62A",
     "U+1D62B", "U+1D62C", "U+1D62D", "U+1D62E", "U+1D62F", "U+1D630", "U+1D631", "U+1D632", "U+1D633", "U+1D634", "U+1D635", "U+1D636",
     "U+1D637", "U+1D638", "U+1D639", "U+1D63A", "U+1D63B", "U+1D63C", "U+1D63D", "U+1D63E", "U+1D63F", "U+1D640", "U+1D641", "U+1D642",
     "U+1D643", "U+1D644", "U+1D645", "U+1D646", "U+1D647", "U+1D648", "U+1D649", "U+1D64A", "U+1D64B", "U+1D64C", "U+1D64D", "U+1D64E",
     "U+1D64F", "U+1D650", "U+1D651", "U+1D652", "U+1D653", "U+1D654", "U+1D655", "U+1D656", "U+1D657", "U+1D658", "U+1D659", "U+1D65A",
     "U+1D65B", "U+1D65C", "U+1D65D", "U+1D65E", "U+1D65F", "U+1D660", "U+1D661", "U+1D662", "U+1D663", "U+1D664", "U+1D665", "U+1D666",
     "U+1D667", "U+1D668", "U+1D669", "U+1D66A", "U+1D66B", "U+1D66C", "U+1D66D", "U+1D66E", "U+1D66F", "U+1D670", "U+1D671", "U+1D672",
     "U+1D673", "U+1D674", "U+1D675", "U+1D676", "U+1D677", "U+1D678", "U+1D679", "U+1D67A", "U+1D67B", "U+1D67C", "U+1D67D", "U+1D67E",
     "U+1D67F", "U+1D680", "U+1D681", "U+1D682", "U+1D683", "U+1D684", "U+1D685", "U+1D686", "U+1D687", "U+1D688", "U+1D689", "U+1D68A",
     "U+1D68B", "U+1D68C", "U+1D68D", "U+1D68E", "U+1D68F", "U+1D690", "U+1D691", "U+1D692", "U+1D693", "U+1D694", "U+1D695", "U+1D696",
     "U+1D697", "U+1D698", "U+1D699", "U+1D69A", "U+1D69B", "U+1D69C", "U+1D69D", "U+1D69E", "U+1D69F", "U+1D6A0", "U+1D6A1", "U+1D6A2",
     "U+1D6A3", "U+1D6A4", "U+1D6A5", "U+1D6A8", "U+1D6A9", "U+1D6AA", "U+1D6AB", "U+1D6AC", "U+1D6AD", "U+1D6AE", "U+1D6AF", "U+1D6B0",
     "U+1D6B1", "U+1D6B2", "U+1D6B3", "U+1D6B4", "U+1D6B5", "U+1D6B6", "U+1D6B7", "U+1D6B8", "U+1D6B9", "U+1D6BA", "U+1D6BB", "U+1D6BC",
     "U+1D6BD", "U+1D6BE", "U+1D6BF", "U+1D6C0", "U+1D6C2", "U+1D6C3", "U+1D6C4", "U+1D6C5", "U+1D6C6", "U+1D6C7", "U+1D6C8", "U+1D6C9",
     "U+1D6CA", "U+1D6CB", "U+1D6CC", "U+1D6CD", "U+1D6CE", "U+1D6CF", "U+1D6D0", "U+1D6D1", "U+1D6D2", "U+1D6D3", "U+1D6D4", "U+1D6D5",
     "U+1D6D6", "U+1D6D7", "U+1D6D8", "U+1D6D9", "U+1D6DA", "U+1D6DC", "U+1D6DD", "U+1D6DE", "U+1D6DF", "U+1D6E0", "U+1D6E1", "U+1D6E2",
     "U+1D6E3", "U+1D6E4", "U+1D6E5", "U+1D6E6", "U+1D6E7", "U+1D6E8", "U+1D6E9", "U+1D6EA", "U+1D6EB", "U+1D6EC", "U+1D6ED", "U+1D6EE",
     "U+1D6EF", "U+1D6F0", "U+1D6F1", "U+1D6F2", "U+1D6F3", "U+1D6F4", "U+1D6F5", "U+1D6F6", "U+1D6F7", "U+1D6F8", "U+1D6F9", "U+1D6FA",
     "U+1D6FC", "U+1D6FD", "U+1D6FE", "U+1D6FF", "U+1D700", "U+1D701", "U+1D702", "U+1D703", "U+1D704", "U+1D705", "U+1D706", "U+1D707",
     "U+1D708", "U+1D709", "U+1D70A", "U+1D70B", "U+1D70C", "U+1D70D", "U+1D70E", "U+1D70F", "U+1D710", "U+1D711", "U+1D712", "U+1D713",
     "U+1D714", "U+1D716", "U+1D717", "U+1D718", "U+1D719", "U+1D71A", "U+1D71B", "U+1D71C", "U+1D71D", "U+1D71E", "U+1D71F", "U+1D720",
     "U+1D721", "U+1D722", "U+1D723", "U+1D724", "U+1D725", "U+1D726", "U+1D727", "U+1D728", "U+1D729", "U+1D72A", "U+1D72B", "U+1D72C",
     "U+1D72D", "U+1D72E", "U+1D72F", "U+1D730", "U+1D731", "U+1D732", "U+1D733", "U+1D734", "U+1D736", "U+1D737", "U+1D738", "U+1D739",
     "U+1D73A", "U+1D73B", "U+1D73C", "U+1D73D", "U+1D73E", "U+1D73F", "U+1D740", "U+1D741", "U+1D742", "U+1D743", "U+1D744", "U+1D745",
     "U+1D746", "U+1D747", "U+1D748", "U+1D749", "U+1D74A", "U+1D74B", "U+1D74C", "U+1D74D", "U+1D74E", "U+1D750", "U+1D751", "U+1D752",
     "U+1D753", "U+1D754", "U+1D755", "U+1D756", "U+1D757", "U+1D758", "U+1D759", "U+1D75A", "U+1D75B", "U+1D75C", "U+1D75D", "U+1D75E",
     "U+1D75F", "U+1D760", "U+1D761", "U+1D762", "U+1D763", "U+1D764", "U+1D765", "U+1D766", "U+1D767", "U+1D768", "U+1D769", "U+1D76A",
     "U+1D76B", "U+1D76C", "U+1D76D", "U+1D76E", "U+1D770", "U+1D771", "U+1D772", "U+1D773", "U+1D774", "U+1D775", "U+1D776", "U+1D777",
     "U+1D778", "U+1D779", "U+1D77A", "U+1D77B", "U+1D77C", "U+1D77D", "U+1D77E", "U+1D77F", "U+1D780", "U+1D781", "U+1D782", "U+1D783",
     "U+1D784", "U+1D785", "U+1D786", "U+1D787", "U+1D788", "U+1D78A", "U+1D78B", "U+1D78C", "U+1D78D", "U+1D78E", "U+1D78F", "U+1D790",
     "U+1D791", "U+1D792", "U+1D793", "U+1D794", "U+1D795", "U+1D796", "U+1D797", "U+1D798", "U+1D799", "U+1D79A", "U+1D79B", "U+1D79C",
     "U+1D79D", "U+1D79E", "U+1D79F", "U+1D7A0", "U+1D7A1", "U+1D7A2", "U+1D7A3", "U+1D7A4", "U+1D7A5", "U+1D7A6", "U+1D7A7", "U+1D7A8",
     "U+1D7AA", "U+1D7AB", "U+1D7AC", "U+1D7AD", "U+1D7AE", "U+1D7AF", "U+1D7B0", "U+1D7B1", "U+1D7B2", "U+1D7B3", "U+1D7B4", "U+1D7B5",
     "U+1D7B6", "U+1D7B7", "U+1D7B8", "U+1D7B9", "U+1D7BA", "U+1D7BB", "U+1D7BC", "U+1D7BD", "U+1D7BE", "U+1D7BF", "U+1D7C0", "U+1D7C1",
     "U+1D7C2", "U+1D7C4", "U+1D7C5", "U+1D7C6", "U+1D7C7", "U+1D7C8", "U+1D7C9", "U+1D7CA", "U+1D7CB", "U+1DF00", "U+1DF01", "U+1DF02",
     "U+1DF03", "U+1DF04", "U+1DF05", "U+1DF06", "U+1DF07", "U+1DF08", "U+1DF09", "U+1DF0B", "U+1DF0C", "U+1DF0D", "U+1DF0E", "U+1DF0F",
     "U+1DF10", "U+1DF11", "U+1DF12", "U+1DF13", "U+1DF14", "U+1DF15", "U+1DF16", "U+1DF17", "U+1DF18", "U+1DF19", "U+1DF1A", "U+1DF1B",
     "U+1DF1C", "U+1DF1D", "U+1DF1E", "U+1E900", "U+1E901", "U+1E902", "U+1E903", "U+1E904", "U+1E905", "U+1E906", "U+1E907", "U+1E908",
     "U+1E909", "U+1E90A", "U+1E90B", "U+1E90C", "U+1E90D", "U+1E90E", "U+1E90F", "U+1E910", "U+1E911", "U+1E912", "U+1E913", "U+1E914",
     "U+1E915", "U+1E916", "U+1E917", "U+1E918", "U+1E919", "U+1E91A", "U+1E91B", "U+1E91C", "U+1E91D", "U+1E91E", "U+1E91F", "U+1E920",
     "U+1E921", "U+1E922", "U+1E923", "U+1E924", "U+1E925", "U+1E926", "U+1E927", "U+1E928", "U+1E929", "U+1E92A", "U+1E92B", "U+1E92C",
     "U+1E92D", "U+1E92E", "U+1E92F", "U+1E930", "U+1E931", "U+1E932", "U+1E933", "U+1E934", "U+1E935", "U+1E936", "U+1E937", "U+1E938",
     "U+1E939", "U+1E93A", "U+1E93B", "U+1E93C", "U+1E93D", "U+1E93E", "U+1E93F", "U+1E940", "U+1E941", "U+1E942", "U+1E943", "U+1F130",
     "U+1F131", "U+1F132", "U+1F133", "U+1F134", "U+1F135", "U+1F136", "U+1F137", "U+1F138", "U+1F139", "U+1F13A", "U+1F13B", "U+1F13C",
     "U+1F13D", "U+1F13E", "U+1F13F", "U+1F140", "U+1F141", "U+1F142", "U+1F143", "U+1F144", "U+1F145", "U+1F146", "U+1F147", "U+1F148",
     "U+1F149", "U+1F150", "U+1F151", "U+1F152", "U+1F153", "U+1F154", "U+1F155", "U+1F156", "U+1F157", "U+1F158", "U+1F159", "U+1F15A",
     "U+1F15B", "U+1F15C", "U+1F15D", "U+1F15E", "U+1F15F", "U+1F160", "U+1F161", "U+1F162", "U+1F163", "U+1F164", "U+1F165", "U+1F166",
     "U+1F167", "U+1F168", "U+1F169", "U+1F170", "U+1F171", "U+1F172", "U+1F173", "U+1F174", "U+1F175", "U+1F176", "U+1F177", "U+1F178",
     "U+1F179", "U+1F17A", "U+1F17B", "U+1F17C", "U+1F17D", "U+1F17E", "U+1F17F", "U+1F180", "U+1F181", "U+1F182", "U+1F183", "U+1F184",
     "U+1F185", "U+1F186", "U+1F187", "U+1F188", "U+1F189"}

\* the case-ignorable characters
CaseIgnorable ==
    {"'", ".", ":", "^", "U+0060", "¨", "­", "¯", "´", "·", "¸", "U+02B0",
     "U+02B1", "U+02B2", "U+02B3", "U+02B4", "U+02B5", "U+02B6", "U+02B7", "U+02B8", "U+02B9", "U+02BA", "U+02BB", "U+02BC",
     "U+02BD", "U+02BE", "U+02BF", "U+02C0", "U+02C1", "U+02C2", "U+02C3", "U+02C4", "U+02C5", "U+02C6", "U+02C7", "U+02C8",
     "U+02C9", "U+02CA", "U+02CB", "U+02CC", "U+02CD", "U+02CE", "U+02CF", "U+02D0", "U+02D1", "U+02D2", "U+02D3", "U+02D4",
     "U+02D5", "U+02D6", "U+02D7", "U+02D8", "U+02D9", "U+02DA", "U+02DB", "U+02DC", "U+02DD", "U+02DE", "U+02DF", "U+02E0",
     "U+02E1", "U+02E2", "U+02E3", "U+02E4", "U+02E5", "U+02E6", "U+02E7", "U+02E8", "U+02E9", "U+02EA", "U+02EB", "U+02EC",
     "U+02ED", "U+02EE", "U+02EF", "U+02F0", "U+02F1", "U+02F2", "U+02F3", "U+02F4", "U+02F5", "U+02F6", "U+02F7", "U+02F8",
     "U+02F9", "U+02FA", "U+02FB", "U+02FC", "U+02FD", "U+02FE", "U+02FF", "U+0300", "U+0301", "U+0302", "U+0303", "U+0304",
     "U+0305", "U+0306", "U+0307", "U+0308", "U+0309", "U+030A", "U+030B", "U+030C", "U+030D", "U+030E", "U+030F", "U+0310",
     "U+0311", "U+0312", "U+0313", "U+0314", "U+0315", "U+0316", "U+0317", "U+0318", "U+0319", "U+031A", "U+031B", "U+031C",
     "U+031D", "U+031E", "U+031F", "U+0320", "U+0321", "U+0322", "U+0323", "U+0324", "U+0325", "U+0326", "U+0327", "U+0328",
     "U+0329", "U+032A", "U+032B", "U+032C", "U+032D", "U+032E", "U+032F", "U+0330", "U+0331", "U+0332", "U+0333", "U+0334",
     "U+0335", "U+0336", "U+0337", "U+0338", "U+0339", "U+033A", "U+033B", "U+033C", "U+033D", "U+033E", "U+033F", "U+0340",
     "U+0341", "U+0342", "U+0343", "U+0344", "U+0345", "U+0346", "U+0347", "U+0348", "U+0349", "U+034A", "U+034B", "U+034C",
     "U+034D", "U+034E", "U+034F", "U+0350", "U+0351", "U+0352", "U+0353", "U+0354", "U+0355", "U+0356", "U+0357", "U+0358",
     "U+0359", "U+035A", "U+035B", "U+035C", "U+035D", "U+035E", "U+035F", "U+0360", "U+0361", "U+0362", "U+0363", "U+0364",
     "U+0365", "U+0366", "U+0367", "U+0368", "U+0369", "U+036A", "U+036B", "U+036C", "U+036D", "U+036E", "U+036F", "U+0374",
     "U+0375", "U+037A", "U+0384", "U+0385", "U+0387", "U+0483", "U+0484", "U+0485", "U+0486", "U+0487", "U+0488", "U+0489",
     "U+0559", "U+055F", "U+0591", "U+0592", "U+0593", "U+0594", "U+0595", "U+0596", "U+0597", "U+0598", "U+0599", "U+059A",
     "U+059B", "U+059C", "U+059D", "U+059E", "U+059F", "U+05A0", "U+05A1", "U+05A2", "U+05A3", "U+05A4", "U+05A5", "U+05A6",
     "U+05A7", "U+05A8", "U+05A9", "U+05AA", "U+05AB", "U+05AC", "U+05AD", "U+05AE", "U+05AF", "U+05B0", "U+05B1", "U+05B2",
     "U+05B3", "U+05B4", "U+05B5", "U+05B6", "U+05B7", "U+05B8", "U+05B9", "U+05BA", "U+05BB", "U+05BC", "U+05BD", "U+05BF",
     "U+05C1", "U+05C2", "U+05C4", "U+05C5", "U+05C7", "U+05F4", "U+0600", "U+0601", "U+0602", "U+0603", "U+0604", "U+0605",
     "U+0610", "U+0611", "U+0612", "U+0613", "U+0614", "U+0615", "U+0616", "U+0617", "U+0618", "U+0619", "U+061A", "U+061C",
     "U+0640", "U+064B", "U+064C", "U+064D", "U+064E", "U+064F", "U+0650", "U+0651", "U+0652", "U+0653", "U+0654", "U+0655",
     "U+0656", "U+0657", "U+0658", "U+0659", "U+065A", "U+065B", "U+065C", "U+065D", "U+065E", "U+065F", "U+0670", "U+06D6",
     "U+06D7", "U+06D8", "U+06D9", "U+06DA", "U+06DB", "U+06DC", "U+06DD", "U+06DF", "U+06E0", "U+06E1", "U+06E2", "U+06E3",
     "U+06E4", "U+06E5", "U+06E6", "U+06E7", "U+06E8", "U+06EA", "U+06EB", "U+06EC", "U+06ED", "U+070F", "U+0711", "U+0730",
     "U+0731", "U+0732", "U+0733", "U+0734", "U+0735", "U+0736", "U+0737", "U+0738", "U+0739", "U+073A", "U+073B", "U+073C",
     "U+073D", "U+073E", "U+073F", "U+0740", "U+0741", "U+0742", "U+0743", "U+0744", "U+0745", "U+0746", "U+0747", "U+0748",
     "U+0749", "U+074A", "U+07A6", "U+07A7", "U+07A8", "U+07A9", "U+07AA", "U+07AB", "U+07AC", "U+07AD", "U+07AE", "U+07AF",
     "U+07B0", "U+07EB", "U+07EC", "U+07ED", "U+07EE", "U+07EF", "U+07F0", "U+07F1", "U+07F2", "U+07F3", "U+07F4", "U+07F5",
     "U+07FA", "U+07FD", "U+0816", "U+0817", "U+0818", "U+0819", "U+081A", "U+081B", "U+081C", "U+081D", "U+081E", "U+081F",
     "U+0820", "U+0821", "U+0822", "U+0823", "U+0824", "U+0825", "U+0826", "U+0827", "U+0828", "U+0829", "U+082A", "U+082B",
     "U+082C", "U+082D", "U+0859", "U+085A", "U+085B", "U+0888", "U+0890", "U+0891", "U+0898", "U+0899", "U+089A", "U+089B",
     "U+089C", "U+089D", "U+089E", "U+089F", "U+08C9", "U+08CA", "U+08CB", "U+08CC", "U+08CD", "U+08CE", "U+08CF", "U+08D0",
     "U+08D1", "U+08D2", "U+08D3", "U+08D4", "U+08D5", "U+08D6", "U+08D7", "U+08D8", "U+08D9", "U+08DA", "U+08DB", "U+08DC",
     "U+08DD", "U+08DE", "U+08DF", "U+08E0", "U+08E1", "U+08E2", "U+08E3", "U+08E4", "U+08E5", "U+08E6", "U+08E7", "U+08E8",
     "U+08E9", "U+08EA", "U+08EB", "U+08EC", "U+08ED", "U+08EE", "U+08EF", "U+08F0", "U+08F1", "U+08F2", "U+08F3", "U+08F4",
     "U+08F5", "U+08F6", "U+08F7", "U+08F8", "U+08F9", "U+08FA", "U+08FB", "U+08FC", "U+08FD", "U+08FE", "U+08FF", "U+0900",
     "U+0901", "U+0902", "U+093A", "U+093C", "U+0941", "U+0942", "U+0943", "U+0944", "U+0945", "U+0946", "U+0947", "U+0948",
     "U+094D", "U+0951", "U+0952", "U+0953", "U+0954", "U+0955", "U+0956", "U+0957", "U+0962", "U+0963", "U+0971", "U+0981",
     "U+09BC", "U+09C1", "U+09C2", "U+09C3", "U+09C4", "U+09CD", "U+09E2", "U+09E3", "U+09FE", "U+0A01", "U+0A02", "U+0A3C",
     "U+0A41", "U+0A42", "U+0A47", "U+0A48", "U+0A4B", "U+0A4C", "U+0A4D", "U+0A51", "U+0A70", "U+0A71", "U+0A75", "U+0A81",
     "U+0A82", "U+0ABC", "U+0AC1", "U+0AC2", "U+0AC3", "U+0AC4", "U+0AC5", "U+0AC7", "U+0AC8", "U+0ACD", "U+0AE2", "U+0AE3",
     "U+0AFA", "U+0AFB", "U+0AFC", "U+0AFD", "U+0AFE", "U+0AFF", "U+0B01", "U+0B3C", "U+0B3F", "U+0B41", "U+0B42", "U+0B43",
     "U+0B44", "U+0B4D", "U+0B55", "U+0B56", "U+0B62", "U+0B63", "U+0B82", "U+0BC0", "U+0BCD", "U+0C00", "U+0C04", "U+0C3C",
     "U+0C3E", "U+0C3F", "U+0C40", "U+0C46", "U+0C47", "U+0C48", "U+0C4A", "U+0C4B", "U+0C4C", "U+0C4D", "U+0C55", "U+0C56",
     "U+0C62", "U+0C63", "U+0C81", "U+0CBC", "U+0CBF", "U+0CC6", "U+0CCC", "U+0CCD", "U+0CE2", "U+0CE3", "U+0D00", "U+0D01",
     "U+0D3B", "U+0D3C", "U+0D41", "U+0D42", "U+0D43", "U+0D44", "U+0D4D", "U+0D62", "U+0D63", "U+0D81", "U+0DCA", "U+0DD2",
     "U+0DD3", "U+0DD4", "U+0DD6", "U+0E31", "U+0E34", "U+0E35", "U+0E36", "U+0E37", "U+0E38", "U+0E39", "U+0E3A", "U+0E46",
     "U+0E47", "U+0E48", "U+0E49", "U+0E4A", "U+0E4B", "U+0E4C", "U+0E4D", "U+0E4E", "U+0EB1", "U+0EB4", "U+0EB5", "U+0EB6",
     "U+0EB7", "U+0EB8", "U+0EB9", "U+0EBA", "U+0EBB", "U+0EBC", "U+0EC6", "U+0EC8", "U+0EC9", "U+0ECA", "U+0ECB", "U+0ECC",
     "U+0ECD", "U+0F18", "U+0F19", "U+0F35", "U+0F37", "U+0F39", "U+0F71", "U+0F72", "U+0F73", "U+0F74", "U+0F75", "U+0F76",
     "U+0F77", "U+0F78", "U+0F79", "U+0F7A", "U+0F7B", "U+0F7C", "U+0F7D", "U+0F7E", "U+0F80", "U+0F81", "U+0F82", "U+0F83",
     "U+0F84", "U+0F86", "U+0F87", "U+0F8D", "U+0F8E", "U+0F8F", "U+0F90", "U+0F91", "U+0F92", "U+0F93", "U+0F94", "U+0F95",
     "U+0F96", "U+0F97", "U+0F99", "U+0F9A", "U+0F9B", "U+0F9C", "U+0F9D", "U+0F9E", "U+0F9F", "U+0FA0", "U+0FA1", "U+0FA2",
     "U+0FA3", "U+0FA4", "U+0FA5", "U+0FA6", "U+0FA7", "U+0FA8", "U+0FA9", "U+0FAA", "U+0FAB", "U+0FAC", "U+0FAD", "U+0FAE",
     "U+0FAF", "U+0FB0", "U+0FB1", "U+0FB2", "U+0FB3", "U+0FB4", "U+0FB5", "U+0FB6", "U+0FB7", "U+0FB8", "U+0FB9", "U+0FBA",
     "U+0FBB", "U+0FBC", "U+0FC6", "U+102D", "U+102E", "U+102F", "U+1030", "U+1032", "U+1033", "U+1034", "U+1035", "U+1036",
     "U+1037", "U+1039", "U+103A", "U+103D", "U+103E", "U+1058", "U+1059", "U+105E", "U+105F", "U+1060", "U+1071", "U+1072",
     "U+1073", "U+1074", "U+1082", "U+1085", "U+1086", "U+108D", "U+109D", "U+10FC", "U+135D", "U+135E", "U+135F", "U+1712",
     "U+1713", "U+1714", "U+1732", "U+1733", "U+1752", "U+1753", "U+1772", "U+1773", "U+17B4", "U+17B5", "U+17B7", "U+17B8",
     "U+17B9", "U+17BA", "U+17BB", "U+17BC", "U+17BD", "U+17C6", "U+17C9", "U+17CA", "U+17CB", "U+17CC", "U+17CD", "U+17CE",
     "U+17CF", "U+17D0", "U+17D1", "U+17D2", "U+17D3", "U+17D7", "U+17DD", "U+180B", "U+180C", "U+180D", "U+180E", "U+180F",
     "U+1843", "U+1885", "U+1886", "U+18A9", "U+1920", "U+1921", "U+1922", "U+1927", "U+1928", "U+1932", "U+1939", "U+193A",
     "U+193B", "U+1A17", "U+1A18", "U+1A1B", "U+1A56", "U+1A58", "U+1A59", "U+1A5A", "U+1A5B", "U+1A5C", "U+1A5D", "U+1A5E",
     "U+1A60", "U+1A62", "U+1A65", "U+1A66", "U+1A67", "U+1A68", "U+1A69", "U+1A6A", "U+1A6B", "U+1A6C", "U+1A73", "U+1A74",
     "U+1A75", "U+1A76", "U+1A77", "U+1A78", "U+1A79", "U+1A7A", "U+1A7B", "U+1A7C", "U+1A7F", "U+1AA7", "U+1AB0", "U+1AB1",
     "U+1AB2", "U+1AB3", "U+1AB4", "U+1AB5", "U+1AB6", "U+1AB7", "U+1AB8", "U+1AB9", "U+1ABA", "U+1ABB", "U+1ABC", "U+1ABD",
     "U+1ABE", "U+1ABF", "U+1AC0", "U+1AC1", "U+1AC2", "U+1AC3", "U+1AC4", "U+1AC5", "U+1AC6", "U+1AC7", "U+1AC8", "U+1AC9",
     "U+1ACA", "U+1ACB", "U+1ACC", "U+1ACD", "U+1ACE", "U+1B00", "U+1B01", "U+1B02", "U+1B03", "U+1B34", "U+1B36", "U+1B37",
     "U+1B38", "U+1B39", "U+1B3A", "U+1B3C", "U+1B42", "U+1B6B", "U+1B6C", "U+1B6D", "U+1B6E", "U+1B6F", "U+1B70", "U+1B71",
     "U+1B72", "U+1B73", "U+1B80", "U+1B81", "U+1BA2", "U+1BA3", "U+1BA4", "U+1BA5", "U+1BA8", "U+1BA9", "U+1BAB", "U+1BAC",
     "U+1BAD", "U+1BE6", "U+1BE8", "U+1BE9", "U+1BED", "U+1BEF", "U+1BF0", "U+1BF1", "U+1C2C", "U+1C2D", "U+1C2E", "U+1C2F",
     "U+1C30", "U+1C31", "U+1C32", "U+1C33", "U+1C36", "U+1C37", "U+1C78", "U+1C79", "U+1C7A", "U+1C7B", "U+1C7C", "U+1C7D",
     "U+1CD0", "U+1CD1", "U+1CD2", "U+1CD4", "U+1CD5", "U+1CD6", "U+1CD7", "U+1CD8", "U+1CD9", "U+1CDA", "U+1CDB", "U+1CDC",
     "U+1CDD", "U+1CDE", "U+1CDF", "U+1CE0", "U+1CE2", "U+1CE3", "U+1CE4", "U+1CE5", "U+1CE6", "U+1CE7", "U+1CE8", "U+1CED",
     "U+1CF4", "U+1CF8", "U+1CF9", "U+1D2C", "U+1D2D", "U+1D2E", "U+1D2F", "U+1D30", "U+1D31", "U+1D32", "U+1D33", "U+1D34",
     "U+1D35", "U+1D36", "U+1D37", "U+1D38", "U+1D39", "U+1D3A", "U+1D3B", "U+1D3C", "U+1D3D", "U+1D3E", "U+1D3F", "U+1D40",
     "U+1D41", "U+1D42", "U+1D43", "U+1D44", "U+1D45", "U+1D46", "U+1D47", "U+1D48", "U+1D49", "U+1D4A", "U+1D4B", "U+1D4C",
     "U+1D4D", "U+1D4E", "U+1D4F", "U+1D50", "U+1D51", "U+1D52", "U+1D53", "U+1D54", "U+1D55", "U+1D56", "U+1D57", "U+1D58",
     "U+1D59", "U+1D5A", "U+1D5B", "U+1D5C", "U+1D5D", "U+1D5E", "U+1D5F", "U+1D60", "U+1D61", "U+1D62", "U+1D63", "U+1D64",
     "U+1D65", "U+1D66", "U+1D67", "U+1D68", "U+1D69", "U+1D6A", "U+1D78", "U+1D9B", "U+1D9C", "U+1D9D", "U+1D9E", "U+1D9F",
     "U+1DA0", "U+1DA1", "U+1DA2", "U+1DA3", "U+1DA4", "U+1DA5", "U+1DA6", "U+1DA7", "U+1DA8", "U+1DA9", "U+1DAA", "U+1DAB",
     "U+1DAC", "U+1DAD", "U+1DAE", "U+1DAF", "U+1DB0", "U+1DB1", "U+1DB2", "U+1DB3", "U+1DB4", "U+1DB5", "U+1DB6", "U+1DB7",
     "U+1DB8", "U+1DB9", "U+1DBA", "U+1DBB", "U+1DBC", "U+1DBD", "U+1DBE", "U+1DBF", "U+1DC0", "U+1DC1", "U+1DC2", "U+1DC3",
     "U+1DC4", "U+1DC5", "U+1DC6", "U+1DC7", "U+1DC8", "U+1DC9", "U+1DCA", "U+1DCB", "U+1DCC", "U+1DCD", "U+1DCE", "U+1DCF",
     "U+1DD0", "U+1DD1", "U+1DD2", "U+1DD3", "U+1DD4", "U+1DD5", "U+1DD6", "U+1DD7", "U+1DD8", "U+1DD9", "U+1DDA", "U+1DDB",
     "U+1DDC", "U+1DDD", "U+1DDE", "U+1DDF", "U+1DE0", "U+1DE1", "U+1DE2", "U+1DE3", "U+1DE4", "U+1DE5", "U+1DE6", "U+1DE7",
     "U+1DE8", "U+1DE9", "U+1DEA", "U+1DEB", "U+1DEC", "U+1DED", "U+1DEE", "U+1DEF", "U+1DF0", "U+1DF1", "U+1DF2", "U+1DF3",
     "U+1DF4", "U+1DF5", "U+1DF6", "U+1DF7", "U+1DF8", "U+1DF9", "U+1DFA", "U+1DFB", "U+1DFC", "U+1DFD", "U+1DFE", "U+1DFF",
     "U+1FBD", "U+1FBF", "U+1FC0", "U+1FC1", "U+1FCD", "U+1FCE", "U+1FCF", "U+1FDD", "U+1FDE", "U+1FDF", "U+1FED", "U+1FEE",
     "U+1FEF", "U+1FFD", "U+1FFE", "U+200B", "U+200C", "U+200D", "U+200E", "U+200F", "U+2018", "U+2019", "U+2024", "U+2027",
     "U+202A", "U+202B", "U+202C", "U+202D", "U+202E", "U+2060", "U+2061", "U+2062", "U+2063", "U+2064", "U+2066", "U+2067",
     "U+2068", "U+2069", "U+206A", "U+206B", "U+206C", "U+206D", "U+206E", "U+206F", "U+2071", "U+207F", "U+2090", "U+2091",
     "U+2092", "U+2093", "U+2094", "U+2095", "U+2096", "U+2097", "U+2098", "U+2099", "U+209A", "U+209B", "U+209C", "U+20D0",
     "U+20D1", "U+20D2", "U+20D3", "U+20D4", "U+20D5", "U+20D6", "U+20D7", "U+20D8", "U+20D9", "U+20DA", "U+20DB", "U+20DC",
     "U+20DD", "U+20DE", "U+20DF", "U+20E0", "U+20E1", "U+20E2", "U+20E3", "U+20E4", "U+20E5", "U+20E6", "U+20E7", "U+20E8",
     "U+20E9", "U+20EA", "U+20EB", "U+20EC", "U+20ED", "U+20EE", "U+20EF", "U+20F0", "U+2C7C", "U+2C7D", "U+2CEF", "U+2CF0",
     "U+2CF1", "U+2D6F", "U+2D7F", "U+2DE0", "U+2DE1", "U+2DE2", "U+2DE3", "U+2DE4", "U+2DE5", "U+2DE6", "U+2DE7", "U+2DE8",
     "U+2DE9", "U+2DEA", "U+2DEB", "U+2DEC", "U+2DED", "U+2DEE", "U+2DEF", "U+2DF0", "U+2DF1", "U+2DF2", "U+2DF3", "U+2DF4",
     "U+2DF5", "U+2DF6", "U+2DF7", "U+2DF8", "U+2DF9", "U+2DFA", "U+2DFB", "U+2DFC", "U+2DFD", "U+2DFE", "U+2DFF", "U+2E2F",
     "U+3005", "U+302A", "U+302B", "U+302C", "U+302D", "U+3031", "U+3032", "U+3033", "U+3034", "U+3035", "U+303B", "U+3099",
     "U+309A", "U+309B", "U+309C", "U+309D", "U+309E", "U+30FC", "U+30FD", "U+30FE", "U+A015", "U+A4F8", "U+A4F9", "U+A4FA",
     "U+A4FB", "U+A4FC", "U+A4FD", "U+A60C", "U+A66F", "U+A670", "U+A671", "U+A672", "U+A674", "U+A675", "U+A676", "U+A677",
     "U+A678", "U+A679", "U+A67A", "U+A67B", "U+A67C", "U+A67D", "U+A67F", "U+A69C", "U+A69D", "U+A69E", "U+A69F", "U+A6F0",
     "U+A6F1", "U+A700", "U+A701", "U+A702", "U+A703", "U+A704", "U+A705", "U+A706", "U+A707", "U+A708", "U+A709", "U+A70A",
     "U+A70B", "U+A70C", "U+A70D", "U+A70E", "U+A70F", "U+A710", "U+A711", "U+A712", "U+A713", "U+A714", "U+A715", "U+A716",
     "U+A717", "U+A718", "U+A719", "U+A71A", "U+A71B", "U+A71C", "U+A71D", "U+A71E", "U+A71F", "U+A720", "U+A721", "U+A770",
     "U+A788", "U+A789", "U+A78A", "U+A7F2", "U+A7F3", "U+A7F4", "U+A7F8", "U+A7F9", "U+A802", "U+A806", "U+A80B", "U+A825",
     "U+A826", "U+A82C", "U+A8C4", "U+A8C5", "U+A8E0", "U+A8E1", "U+A8E2", "U+A8E3", "U+A8E4", "U+A8E5", "U+A8E6", "U+A8E7",
     "U+A8E8", "U+A8E9", "U+A8EA", "U+A8EB", "U+A8EC", "U+A8ED", "U+A8EE", "U+A8EF", "U+A8F0", "U+A8F1", "U+A8FF", "U+A926",
     "U+A927", "U+A928", "U+A929", "U+A92A", "U+A92B", "U+A92C", "U+A92D", "U+A947", "U+A948", "U+A949", "U+A94A", "U+A94B",
     "U+A94C", "U+A94D", "U+A94E", "U+A94F", "U+A950", "U+A951", "U+A980", "U+A981", "U+A982", "U+A9B3", "U+A9B6", "U+A9B7",
     "U+A9B8", "U+A9B9", "U+A9BC", "U+A9BD", "U+A9CF", "U+A9E5", "U+A9E6", "U+AA29", "U+AA2A", "U+AA2B", "U+AA2C", "U+AA2D",
     "U+AA2E", "U+AA31", "U+AA32", "U+AA35", "U+AA36", "U+AA43", "U+AA4C", "U+AA70", "U+AA7C", "U+AAB0", "U+AAB2", "U+AAB3",
     "U+AAB4", "U+AAB7", "U+AAB8", "U+AABE", "U+AABF", "U+AAC1", "U+AADD", "U+AAEC", "U+AAED", "U+AAF3", "U+AAF4", "U+AAF6",
     "U+AB5B", "U+AB5C", "U+AB5D", "U+AB5E", "U+AB5F", "U+AB69", "U+AB6A", "U+AB6B", "U+ABE5", "U+ABE8", "U+ABED", "U+FB1E",
     "U+FBB2", "U+FBB3", "U+FBB4", "U+FBB5", "U+FBB6", "U+FBB7", "U+FBB8", "U+FBB9", "U+FBBA", "U+FBBB", "U+FBBC", "U+FBBD",
     "U+FBBE", "U+FBBF", "U+FBC0", "U+FBC1", "U+FBC2", "U+FE00", "U+FE01", "U+FE02", "U+FE03", "U+FE04", "U+FE05", "U+FE06",
     "U+FE07", "U+FE08", "U+FE09", "U+FE0A", "U+FE0B", "U+FE0C", "U+FE0D", "U+FE0E", "U+FE0F", "U+FE13", "U+FE20", "U+FE21",
     "U+FE22", "U+FE23", "U+FE24", "U+FE25", "U+FE26", "U+FE27", "U+FE28", "U+FE29", "U+FE2A", "U+FE2B", "U+FE2C", "U+FE2D",
     "U+FE2E", "U+FE2F", "U+FE52", "U+FE55", "U+FEFF", "U+FF07", "U+FF0E", "U+FF1A", "U+FF3E", "U+FF40", "U+FF70", "U+FF9E",
     "U+FF9F", "U+FFE3", "U+FFF9", "U+FFFA", "U+FFFB", "U+101FD", "U+102E0", "U+10376", "U+10377", "U+10378", "U+10379", "U+1037A",
     "U+10780", "U+10781", "U+10782", "U+10783", "U+10784", "U+10785", "U+10787", "U+10788", "U+10789", "U+1078A", "U+1078B", "U+1078C",
     "U+1078D", "U+1078E", "U+1078F", "U+10790", "U+10791", "U+10792", "U+10793", "U+10794", "U+10795", "U+10796", "U+10797", "U+10798",
     "U+10799", "U+1079A", "U+1079B", "U+1079C", "U+1079D", "U+1079E", "U+1079F", "U+107A0", "U+107A1", "U+107A2", "U+107A3", "U+107A4",
     "U+107A5", "U+107A6", "U+107A7", "U+107A8", "U+107A9", "U+107AA", "U+107AB", "U+107AC", "U+107AD", "U+107AE", "U+107AF", "U+107B0",
     "U+107B2", "U+107B3", "U+107B4", "U+107B5", "U+107B6", "U+107B7", "U+107B8", "U+107B9", "U+107BA", "U+10A01", "U+10A02", "U+10A03",
     "U+10A05", "U+10A06", "U+10A0C", "U+10A0D", "U+10A0E", "U+10A0F", "U+10A38", "U+10A39", "U+10A3A", "U+10A3F", "U+10AE5", "U+10AE6",
     "U+10D24", "U+10D25", "U+10D26", "U+10D27", "U+10EAB", "U+10EAC", "U+10F46", "U+10F47", "U+10F48", "U+10F49", "U+10F4A", "U+10F4B",
     "U+10F4C", "U+10F4D", "U+10F4E", "U+10F4F", "U+10F50", "U+10F82", "U+10F83", "U+10F84", "U+10F85", "U+11001", "U+11038", "U+11039",
     "U+1103A", "U+1103B", "U+1103C", "U+1103D", "U+1103E", "U+1103F", "U+11040", "U+11041", "U+11042", "U+11043", "U+11044", "U+11045",
     "U+11046", "U+11070", "U+11073", "U+11074", "U+1107F", "U+11080", "U+11081", "U+110B3", "U+110B4", "U+110B5", "U+110B6", "U+110B9",
     "U+110BA", "U+110BD", "U+110C2", "U+110CD", "U+11100", "U+11101", "U+11102", "U+11127", "U+11128", "U+11129", "U+1112A", "U+1112B",
     "U+1112D", "U+1112E", "U+1112F", "U+11130", "U+11131", "U+11132", "U+11133", "U+11134", "U+11173", "U+11180", "U+11181", "U+111B6",
     "U+111B7", "U+111B8", "U+111B9", "U+111BA", "U+111BB", "U+111BC", "U+111BD", "U+111BE", "U+111C9", "U+111CA", "U+111CB", "U+111CC",
     "U+111CF", "U+1122F", "U+11230", "U+11231", "U+11234", "U+11236", "U+11237", "U+1123E", "U+112DF", "U+112E3", "U+112E4", "U+112E5",
     "U+112E6", "U+112E7", "U+112E8", "U+112E9", "U+112EA", "U+11300", "U+11301", "U+1133B", "U+1133C", "U+11340", "U+11366", "U+11367",
     "U+11368", "U+11369", "U+1136A", "U+1136B", "U+1136C", "U+11370", "U+11371", "U+11372", "U+11373", "U+11374", "U+11438", "U+11439",
     "U+1143A", "U+1143B", "U+1143C", "U+1143D", "U+1143E", "U+1143F", "U+11442", "U+11443", "U+11444", "U+11446", "U+1145E", "U+114B3",
     "U+114B4", "U+114B5", "U+114B6", "U+114B7", "U+114B8", "U+114BA", "U+114BF", "U+114C0", "U+114C2", "U+114C3", "U+115B2", "U+115B3",
     "U+115B4", "U+115B5", "U+115BC", "U+115BD", "U+115BF", "U+115C0", "U+115DC", "U+115DD", "U+11633", "U+11634", "U+11635", "U+11636",
     "U+11637", "U+11638", "U+11639", "U+1163A", "U+1163D", "U+1163F", "U+11640", "U+116AB", "U+116AD", "U+116B0", "U+116B1", "U+116B2",
     "U+116B3", "U+116B4", "U+116B5", "U+116B7", "U+1171D", "U+1171E", "U+1171F", "U+11722", "U+11723", "U+11724", "U+11725", "U+11727",
     "U+11728", "U+11729", "U+1172A", "U+1172B", "U+1182F", "U+11830", "U+11831", "U+11832", "U+11833", "U+11834", "U+11835", "U+11836",
     "U+11837", "U+11839", "U+1183A", "U+1193B", "U+1193C", "U+1193E", "U+11943", "U+119D4", "U+119D5", "U+119D6", "U+119D7", "U+119DA",
     "U+119DB", "U+119E0", "U+11A01", "U+11A02", "U+11A03", "U+11A04", "U+11A05", "U+11A06", "U+11A07", "U+11A08", "U+11A09", "U+11A0A",
     "U+11A33", "U+11A34", "U+11A35", "U+11A36", "U+11A37", "U+11A38", "U+11A3B", "U+11A3C", "U+11A3D", "U+11A3E", "U+11A47", "U+11A51",
     "U+11A52", "U+11A53", "U+11A54", "U+11A55", "U+11A56", "U+11A59", "U+11A5A", "U+11A5B", "U+11A8A", "U+11A8B", "U+11A8C", "U+11A8D",
     "U+11A8E", "U+11A8F", "U+11A90", "U+11A91", "U+11A92", "U+11A93", "U+11A94", "U+11A95", "U+11A96", "U+11A98", "U+11A99", "U+11C30",
     "U+11C31", "U+11C32", "U+11C33", "U+11C34", "U+11C35", "U+11C36", "U+11C38", "U+11C39", "U+11C3A", "U+11C3B", "U+11C3C", "U+11C3D",
     "U+11C3F", "U+11C92", "U+11C93", "U+11C94", "U+11C95", "U+11C96", "U+11C97", "U+11C98", "U+11C99", "U+11C9A", "U+11C9B", "U+11C9C",
     "U+11C9D", "U+11C9E", "U+11C9F", "U+11CA0", "U+11CA1", "U+11CA2", "U+11CA3", "U+11CA4", "U+11CA5", "U+11CA6", "U+11CA7", "U+11CAA",
     "U+11CAB", "U+11CAC", "U+11CAD", "U+11CAE", "U+11CAF", "U+11CB0", "U+11CB2", "U+11CB3", "U+11CB5", "U+11CB6", "U+11D31", "U+11D32",
     "U+11D33", "U+11D34", "U+11D35", "U+11D36", "U+11D3A", "U+11D3C", "U+11D3D", "U+11D3F", "U+11D40", "U+11D41", "U+11D42", "U+11D43",
     "U+11D44", "U+11D45", "U+11D47", "U+11D90", "U+11D91", "U+11D95", "U+11D97", "U+11EF3", "U+11EF4", "U+13430", "U+13431", "U+13432",
     "U+13433", "U+13434", "U+13435", "U+13436", "U+13437", "U+13438", "U+16AF0", "U+16AF1", "U+16AF2", "U+16AF3", "U+16AF4", "U+16B30",
     "U+16B31", "U+16B32", "U+16B33", "U+16B34", "U+16B35", "U+16B36", "U+16B40", "U+16B41", "U+16B42", "U+16B43", "U+16F4F", "U+16F8F",
     "U+16F90", "U+16F91", "U+16F92", "U+16F93", "U+16F94", "U+16F95", "U+16F96", "U+16F97", "U+16F98", "U+16F99", "U+16F9A", "U+16F9B",
     "U+16F9C", "U+16F9D", "U+16F9E", "U+16F9F", "U+16FE0", "U+16FE1", "U+16FE3", "U+16FE4", "U+1AFF0", "U+1AFF1", "U+1AFF2", "U+1AFF3",
     "U+1AFF5", "U+1AFF6", "U+1AFF7", "U+1AFF8", "U+1AFF9", "U+1AFFA", "U+1AFFB", "U+1AFFD", "U+1AFFE", "U+1BC9D", "U+1BC9E", "U+1BCA0",
     "U+1BCA1", "U+1BCA2", "U+1BCA3", "U+1CF00", "U+1CF01", "U+1CF02", "U+1CF03", "U+1CF04", "U+1CF05", "U+1CF06", "U+1CF07", "U+1CF08",
     "U+1CF09", "U+1CF0A", "U+1CF0B", "U+1CF0C", "U+1CF0D", "U+1CF0E", "U+1CF0F", "U+1CF10", "U+1CF11", "U+1CF12", "U+1CF13", "U+1CF14",
     "U+1CF15", "U+1CF16", "U+1CF17", "U+1CF18", "U+1CF19", "U+1CF1A", "U+1CF1B", "U+1CF1C", "U+1CF1D", "U+1CF1E", "U+1CF1F", "U+1CF20",
     "U+1CF21", "U+1CF22", "U+1CF23", "U+1CF24", "U+1CF25", "U+1CF26", "U+1CF27", "U+1CF28", "U+1CF29", "U+1CF2A", "U+1CF2B", "U+1CF2C",
     "U+1CF2D", "U+1CF30", "U+1CF31", "U+1CF32", "U+1CF33", "U+1CF34", "U+1CF35", "U+1CF36", "U+1CF37", "U+1CF38", "U+1CF39", "U+1CF3A",
     "U+1CF3B", "U+1CF3C", "U+1CF3D", "U+1CF3E", "U+1CF3F", "U+1CF40", "U+1CF41", "U+1CF42", "U+1CF43", "U+1CF44", "U+1CF45", "U+1CF46",
     "U+1D167", "U+1D168", "U+1D169", "U+1D173", "U+1D174", "U+1D175", "U+1D176", "U+1D177", "U+1D178", "U+1D179", "U+1D17A", "U+1D17B",
     "U+1D17C", "U+1D17D", "U+1D17E", "U+1D17F", "U+1D180", "U+1D181", "U+1D182", "U+1D185", "U+1D186", "U+1D187", "U+1D188", "U+1D189",
     "U+1D18A", "U+1D18B", "U+1D1AA", "U+1D1AB", "U+1D1AC", "U+1D1AD", "U+1D242", "U+1D243", "U+1D244", "U+1DA00", "U+1DA01", "U+1DA02",
     "U+1DA03", "U+1DA04", "U+1DA05", "U+1DA06", "U+1DA07", "U+1DA08", "U+1DA09", "U+1DA0A", "U+1DA0B", "U+1DA0C", "U+1DA0D", "U+1DA0E",
     "U+1DA0F", "U+1DA10", "U+1DA11", "U+1DA12", "U+1DA13", "U+1DA14", "U+1DA15", "U+1DA16", "U+1DA17", "U+1DA18", "U+1DA19", "U+1DA1A",
     "U+1DA1B", "U+1DA1C", "U+1DA1D", "U+1DA1E", "U+1DA1F", "U+1DA20", "U+1DA21", "U+1DA22", "U+1DA23", "U+1DA24", "U+1DA25", "U+1DA26",
     "U+1DA27", "U+1DA28", "U+1DA29", "U+1DA2A", "U+1DA2B", "U+1DA2C", "U+1DA2D", "U+1DA2E", "U+1DA2F", "U+1DA30", "U+1DA31", "U+1DA32",
     "U+1DA33", "U+1DA34", "U+1DA35", "U+1DA36", "U+1DA3B", "U+1DA3C", "U+1DA3D", "U+1DA3E", "U+1DA3F", "U+1DA40", "U+1DA41", "U+1DA42",
     "U+1DA43", "U+1DA44", "U+1DA45", "U+1DA46", "U+1DA47", "U+1DA48", "U+1DA49", "U+1DA4A", "U+1DA4B", "U+1DA4C", "U+1DA4D", "U+1DA4E",
     "U+1DA4F", "U+1DA50", "U+1DA51", "U+1DA52", "U+1DA53", "U+1DA54", "U+1DA55", "U+1DA56", "U+1DA57", "U+1DA58", "U+1DA59", "U+1DA5A",
     "U+1DA5B", "U+1DA5C", "U+1DA5D", "U+1DA5E", "U+1DA5F", "U+1DA60", "U+1DA61", "U+1DA62", "U+1DA63", "U+1DA64", "U+1DA65", "U+1DA66",
     "U+1DA67", "U+1DA68", "U+1DA69", "U+1DA6A", "U+1DA6B", "U+1DA6C", "U+1DA75", "U+1DA84", "U+1DA9B", "U+1DA9C", "U+1DA9D", "U+1DA9E",
     "U+1DA9F", "U+1DAA1", "U+1DAA2", "U+1DAA3", "U+1DAA4", "U+1DAA5", "U+1DAA6", "U+1DAA7", "U+1DAA8", "U+1DAA9", "U+1DAAA", "U+1DAAB",
     "U+1DAAC", "U+1DAAD", "U+1DAAE", "U+1DAAF", "U+1E000", "U+1E001", "U+1E002", "U+1E003", "U+1E004", "U+1E005", "U+1E006", "U+1E008",
     "U+1E009", "U+1E00A", "U+1E00B", "U+1E00C", "U+1E00D", "U+1E00E", "U+1E00F", "U+1E010", "U+1E011", "U+1E012", "U+1E013", "U+1E014",
     "U+1E015", "U+1E016", "U+1E017", "U+1E018", "U+1E01B", "U+1E01C", "U+1E01D", "U+1E01E", "U+1E01F", "U+1E020", "U+1E021", "U+1E023",
     "U+1E024", "U+1E026", "U+1E027", "U+1E028", "U+1E029", "U+1E02A", "U+1E130", "U+1E131", "U+1E132", "U+1E133", "U+1E134", "U+1E135",
     "U+1E136", "U+1E137", "U+1E138", "U+1E139", "U+1E13A", "U+1E13B", "U+1E13C", "U+1E13D", "U+1E2AE", "U+1E2EC", "U+1E2ED", "U+1E2EE",
     "U+1E2EF", "U+1E8D0", "U+1E8D1", "U+1E8D2", "U+1E8D3", "U+1E8D4", "U+1E8D5", "U+1E8D6", "U+1E944", "U+1E945", "U+1E946", "U+1E947",
     "U+1E948", "U+1E949", "U+1E94A", "U+1E94B", "U+1F3FB", "U+1F3FC", "U+1F3FD", "U+1F3FE", "U+1F3FF", "U+E0001", "U+E0020", "U+E0021",
     "U+E0022", "U+E0023", "U+E0024", "U+E0025", "U+E0026", "U+E0027", "U+E0028", "U+E0029", "U+E002A", "U+E002B", "U+E002C", "U+E002D",
     "U+E002E", "U+E002F", "U+E0030", "U+E0031", "U+E0032", "U+E0033", "U+E0034", "U+E0035", "U+E0036", "U+E0037", "U+E0038", "U+E0039",
     "U+E003A", "U+E003B", "U+E003C", "U+E003D", "U+E003E", "U+E003F", "U+E0040", "U+E0041", "U+E0042", "U+E0043", "U+E0044", "U+E0045",
     "U+E0046", "U+E0047", "U+E0048", "U+E0049", "U+E004A", "U+E004B", "U+E004C", "U+E004D", "U+E004E", "U+E004F", "U+E0050", "U+E0051",
     "U+E0052", "U+E0053", "U+E0054", "U+E0055", "U+E0056", "U+E0057", "U+E0058", "U+E0059", "U+E005A", "U+E005B", "U+E005C", "U+E005D",
     "U+E005E", "U+E005F", "U+E0060", "U+E0061", "U+E0062", "U+E0063", "U+E0064", "U+E0065", "U+E0066", "U+E0067", "U+E0068", "U+E0069",
     "U+E006A", "U+E006B", "U+E006C", "U+E006D", "U+E006E", "U+E006F", "U+E0070", "U+E0071", "U+E0072", "U+E0073", "U+E0074", "U+E0075",
     "U+E0076", "U+E0077", "U+E0078", "U+E0079", "U+E007A", "U+E007B", "U+E007C", "U+E007D", "U+E007E", "U+E007F", "U+E0100", "U+E0101",
     "U+E0102", "U+E0103", "U+E0104", "U+E0105", "U+E0106", "U+E0107", "U+E0108", "U+E0109", "U+E010A", "U+E010B", "U+E010C", "U+E010D",
     "U+E010E", "U+E010F", "U+E0110", "U+E0111", "U+E0112", "U+E0113", "U+E0114", "U+E0115", "U+E0116", "U+E0117", "U+E0118", "U+E0119",
     "U+E011A", "U+E011B", "U+E011C", "U+E011D", "U+E011E", "U+E011F", "U+E0120", "U+E0121", "U+E0122", "U+E0123", "U+E0124", "U+E0125",
     "U+E0126", "U+E0127", "U+E0128", "U+E0129", "U+E012A", "U+E012B", "U+E012C", "U+E012D", "U+E012E", "U+E012F", "U+E0130", "U+E0131",
     "U+E0132", "U+E0133", "U+E0134", "U+E0135", "U+E0136", "U+E0137", "U+E0138", "U+E0139", "U+E013A", "U+E013B", "U+E013C", "U+E013D",
     "U+E013E", "U+E013F", "U+E0140", "U+E0141", "U+E0142", "U+E0143", "U+E0144", "U+E0145", "U+E0146", "U+E0147", "U+E0148", "U+E0149",
     "U+E014A", "U+E014B", "U+E014C", "U+E014D", "U+E014E", "U+E014F", "U+E0150", "U+E0151", "U+E0152", "U+E0153", "U+E0154", "U+E0155",
     "U+E0156", "U+E0157", "U+E0158", "U+E0159", "U+E015A", "U+E015B", "U+E015C", "U+E015D", "U+E015E", "U+E015F", "U+E0160", "U+E0161",
     "U+E0162", "U+E0163", "U+E0164", "U+E0165", "U+E0166", "U+E0167", "U+E0168", "U+E0169", "U+E016A", "U+E016B", "U+E016C", "U+E016D",
     "U+E016E", "U+E016F", "U+E0170", "U+E0171", "U+E0172", "U+E0173", "U+E0174", "U+E0175", "U+E0176", "U+E0177", "U+E0178", "U+E0179",
     "U+E017A", "U+E017B", "U+E017C", "U+E017D", "U+E017E", "U+E017F", "U+E0180", "U+E0181", "U+E0182", "U+E0183", "U+E0184", "U+E0185",
     "U+E0186", "U+E0187", "U+E0188", "U+E0189", "U+E018A", "U+E018B", "U+E018C", "U+E018D", "U+E018E", "U+E018F", "U+E0190", "U+E0191",
     "U+E0192", "U+E0193", "U+E0194", "U+E0195", "U+E0196", "U+E0197", "U+E0198", "U+E0199", "U+E019A", "U+E019B", "U+E019C", "U+E019D",
     "U+E019E", "U+E019F", "U+E01A0", "U+E01A1", "U+E01A2", "U+E01A3", "U+E01A4", "U+E01A5", "U+E01A6", "U+E01A7", "U+E01A8", "U+E01A9",
     "U+E01AA", "U+E01AB", "U+E01AC", "U+E01AD", "U+E01AE", "U+E01AF", "U+E01B0", "U+E01B1", "U+E01B2", "U+E01B3", "U+E01B4", "U+E01B5",
     "U+E01B6", "U+E01B7", "U+E01B8", "U+E01B9", "U+E01BA", "U+E01BB", "U+E01BC", "U+E01BD", "U+E01BE", "U+E01BF", "U+E01C0", "U+E01C1",
     "U+E01C2", "U+E01C3", "U+E01C4", "U+E01C5", "U+E01C6", "U+E01C7", "U+E01C8", "U+E01C9", "U+E01CA", "U+E01CB", "U+E01CC", "U+E01CD",
     "U+E01CE", "U+E01CF", "U+E01D0", "U+E01D1", "U+E01D2", "U+E01D3", "U+E01D4", "U+E01D5", "U+E01D6", "U+E01D7", "U+E01D8", "U+E01D9",
     "U+E01DA", "U+E01DB", "U+E01DC", "U+E01DD", "U+E01DE", "U+E01DF", "U+E01E0", "U+E01E1", "U+E01E2", "U+E01E3", "U+E01E4", "U+E01E5",
     "U+E01E6", "U+E01E7", "U+E01E8", "U+E01E9", "U+E01EA", "U+E01EB", "U+E01EC", "U+E01ED", "U+E01EE", "U+E01EF"}

\* str.upper() of one character
upper_char(c) == IF c \in DOMAIN ToUpperFull THEN ToUpperFull[c] ELSE <<c>>

\* str.lower() of one character that is not the capital sigma
lower_char(c) == IF c \in DOMAIN ToLowerFull THEN ToLowerFull[c] ELSE <<c>>

RECURSIVE upper(_)
upper(s) == IF s = <<>> THEN <<>> ELSE upper_char(Head(s)) \o upper(Tail(s))

\* a cased letter stands at position j of s or before it, with nothing but
\* case-ignorable characters after it up to j
RECURSIVE cased_before(_, _)
cased_before(s, j) ==
    j >= 1 /\ (IF s[j] \in CaseIgnorable THEN cased_before(s, j - 1) ELSE s[j] \in CasedLetters)

\* a cased letter stands at position j of s or after it, with nothing but
\* case-ignorable characters before it from j on
RECURSIVE cased_after(_, _)
cased_after(s, j) ==
    j <= Len(s) /\ (IF s[j] \in CaseIgnorable THEN cased_after(s, j + 1) ELSE s[j] \in CasedLetters)

\* str.lower() of the capital sigma at position i of s: the final form when
\* a cased letter stands before it and none after it
handle_capital_sigma(s, i) ==
    IF cased_before(s, i - 1) /\ ~cased_after(s, i + 1) THEN "U+03C2" ELSE "U+03C3"

\* str.lower() of s from position i on
RECURSIVE do_lower(_, _)
do_lower(s, i) ==
    IF i > Len(s) THEN <<>>
    ELSE (IF s[i] = "U+03A3" THEN <<handle_capital_sigma(s, i)>> ELSE lower_char(s[i])) \o do_lower(s, i + 1)

lower(s) == do_lower(s, 1)

RECURSIVE lstrip(_)
lstrip(s) == IF s = <<>> THEN <<>> ELSE IF IsSpace(Head(s)) THEN lstrip(Tail(s)) ELSE s

RECURSIVE rstrip(_)
rstrip(s) ==
    IF s = <<>> THEN <<>>
    ELSE IF IsSpace(s[Len(s)]) THEN rstrip(SubSeq(s, 1, Len(s) - 1)) ELSE s

strip(s) == rstrip(lstrip(s))

\* Python: c in s
Contains(c, s) == \E i \in 1..Len(s) : s[i] = c

\* Python: s.startswith(p)
startswith(s, p) == Len(s) >= Len(p) /\ SubSeq(s, 1, Len(p)) = p

\* Python: not s or not s.strip()
Blank(s) == s = <<>> \/ strip(s) = <<>>

\* Python None where a string is expected
None == <<"None">>

(***************************************************************************)
(* Result mappings and the two ways a call hands control back.             *)
(***************************************************************************)
Err(msg) == [status |-> "error", error_message |-> msg]

ErrM(msg, md) == [status |-> "error", error_message |-> msg, metadata |-> md]

Ok(data, md) == [status |-> "success", data |-> data, metadata |-> md]

\* the function returned `result`, having made the external calls of `trace`
Done(result, trace) == [outcome |-> [kind |-> "return", value |-> result], trace |-> trace]

\* exception `exc` left the function
Raised(exc, trace) == [outcome |-> [kind |-> "raise", exc |-> exc], trace |-> trace]

Pending == [kind |-> "pending"]

(***************************************************************************)
(* Process environment: os.environ maps the names of the variables to      *)
(* their values, a value being abstracted to "set" when it is not empty.   *)
(* The .env file dotenv finds maps names to values in the same way; it is  *)
(* empty when there is no such file.                                       *)
(***************************************************************************)
BINANCE == <<"b","i","n","a","n","c","e">>

OKX == <<"o","k","x">>

API_KEY_SUFFIX == <<"_","A","P","I","_","K","E","Y">>

SECRET_SUFFIX == <<"_","S","E","C","R","E","T">>

PASSWORD_SUFFIX == <<"_","P","A","S","S","W","O","R","D">>

\* os.getenv(name, '')
getenv(name, environ) == IF name \in DOMAIN environ THEN environ[name] ELSE ""

\* dotenv.load_dotenv(): every variable of the .env file that os.environ does
\* not hold yet is put into os.environ; one it holds, empty or not, is kept
load_dotenv(environ, dotfile) ==
    [name \in DOMAIN environ \cup DOMAIN dotfile |-> IF name \in DOMAIN environ THEN environ[name] ELSE dotfile[name]]

\* crypto_trade_agent._get_api_credentials, reading os.environ as load_dotenv() left it
_get_api_credentials(exchange_name, environ, dotfile) ==
    LET exchange_upper == upper(exchange_name)
        loaded == load_dotenv(environ, dotfile)
    IN  [api_key  |-> getenv(exchange_upper \o API_KEY_SUFFIX, loaded),
         secret   |-> getenv(exchange_upper \o SECRET_SUFFIX, loaded),
         password |-> getenv(exchange_upper \o PASSWORD_SUFFIX, loaded)]

\* what a call hands back together with os.environ as the call left it
with_environ(environ, out) == out @@ [environ |-> environ]

\* crypto_trade_agent.SUPPORTED_EXCHANGES (the keys)
SUPPORTED_EXCHANGES == {BINANCE, OKX}

\* crypto_trade_agent._get_exchange: ValueError before anything is built for an
\* unsupported name; otherwise the exchange object is built and load_markets()
\* is requested, which the exchange may fail.
_get_exchange(exchange_name, api_key, secret, password, ext) ==
    IF lower(exchange_name) \notin SUPPORTED_EXCHANGES
    THEN [exc |-> "ValueError", trace |-> <<>>]
    ELSE IF ext.load = "ok"
         THEN [exc |-> "none", trace |-> <<"exchange_class", "load_markets">>]
         ELSE [exc |-> ext.load, trace |-> <<"exchange_class", "load_markets">>]

\* crypto_market_agent.SUPPORTED_EXCHANGES (the keys)
MARKET_SUPPORTED_EXCHANGES == {BINANCE, OKX}

\* crypto_market_agent._get_exchange: anonymous handle, no request at build time
market_get_exchange(exchange_name) ==
    IF lower(exchange_name) \notin MARKET_SUPPORTED_EXCHANGES
    THEN [exc |-> "ValueError", trace |-> <<>>]
    ELSE [exc |-> "none", trace |-> <<"exchange_class">>]

(***************************************************************************)
(* What the exchange does during one invocation: `load` answers            *)
(* load_markets(), `op` answers the operation of the tool ("malformed": it *)
(* answers with a body the shaping code cannot index), `products` are the  *)
(* assets of the savings products it lists.                                *)
(***************************************************************************)
FTX == <<"f","t","x">>

USDT == <<"U","S","D","T">>

\* exchange.markets[symbol]: contract size in thousandths, precisions as str() prints them
MarketOne == [listed |-> TRUE, contractSize |-> 1000, amount_precision |-> <<"1">>, price_precision |-> <<"0",".","1">>]

\* an order book as fetch_order_book answers it: <<price, amount>> levels
BookTwo == [bids |-> <<<<99, 2>>, <<98, 3>>>>, asks |-> <<<<101, 1>>, <<102, 4>>>>]

ExtOk == [load |-> "ok", op |-> "ok", products |-> <<USDT>>, market |-> MarketOne, book |-> BookTwo, has |-> TRUE]

\* call_exchange as it would be if a failed call were issued a second time
call_exchange_retrying(trace, method, answer) ==
    IF answer \in {"Exception", "ValueError", "AttributeError"}
    THEN Append(Append(trace, method), method)
    ELSE Append(trace, method)

\* one call of a method of the exchange handle, answered by the exchange with
\* `answer`: the call site issues the request once, whatever the answer
call_exchange(trace, method, answer) == Append(trace, method)

(***************************************************************************)
(* crypto_trade_agent: spot tools.                                         *)
(***************************************************************************)
get_spot_balance(exchange_name, environ, dotfile, ext) ==
    IF Blank(exchange_name)
    THEN Done(Err("exchange name must not be empty"), <<>>)
    ELSE
    LET exchange_normalized == lower(strip(exchange_name))
        credentials == _get_api_credentials(exchange_normalized, environ, dotfile)
        md == [exchange |-> exchange_normalized]
        exchange == _get_exchange(exchange_normalized, credentials.api_key, credentials.secret, credentials.password, ext)
        tr == call_exchange(exchange.trace, "fetch_balance", ext.op)
    IN  with_environ(load_dotenv(environ, dotfile),
        IF credentials.api_key = "" \/ credentials.secret = ""
        THEN Done(ErrM("set the API_KEY and SECRET environment variables to fetch the balance", md), <<>>)
        ELSE IF exchange.exc = "ValueError"
        THEN Done(ErrM("unsupported exchange", md), exchange.trace)
        ELSE IF exchange.exc # "none"
        THEN Done(ErrM("fetching the spot balance failed", md), exchange.trace)
        ELSE IF ext.op = "ok"
        THEN Done(Ok([balances |-> "balances", total_currencies |-> "count"], md @@ [timestamp |-> "time"]), tr)
        ELSE IF ext.op = "ValueError"
        THEN Done(ErrM("unsupported exchange", md), tr)
        ELSE Done(ErrM("fetching the spot balance failed", md), tr))

place_spot_order(symbol, side, amount, price, exchange_name, environ, dotfile, ext) ==
    LET order_type == <<"l","i","m","i","t">>
        LIMIT == <<"l","i","m","i","t">>
        MARKET == <<"m","a","r","k","e","t">>
    IN
    IF Blank(symbol)
    THEN Done(Err("symbol must not be empty, give a pair such as BTC/USDT"), <<>>)
    ELSE IF side = <<>> \/ lower(strip(side)) \notin {<<"b","u","y">>, <<"s","e","l","l">>}
    THEN Done(Err("side must be buy or sell"), <<>>)
    ELSE IF amount <= 0
    THEN Done(Err("amount must be a number greater than 0"), <<>>)
    ELSE IF order_type = <<>> \/ lower(strip(order_type)) \notin {LIMIT, MARKET}
    THEN Done(Err("order type must be limit or market"), <<>>)
    ELSE IF lower(strip(order_type)) = LIMIT /\ price <= 0
    THEN Done(Err("a limit order needs a price greater than 0"), <<>>)
    ELSE IF Blank(exchange_name)
    THEN Done(Err("exchange name must not be empty"), <<>>)
    ELSE
    LET symbol_normalized == upper(strip(symbol))
        side_normalized == lower(strip(side))
        order_type_normalized == lower(strip(order_type))
        exchange_normalized == lower(strip(exchange_name))
        credentials == _get_api_credentials(exchange_normalized, environ, dotfile)
        md == [exchange |-> exchange_normalized, symbol |-> symbol_normalized]
        exchange == _get_exchange(exchange_normalized, credentials.api_key, credentials.secret, credentials.password, ext)
        create == IF order_type_normalized = LIMIT THEN "create_limit_order" ELSE "create_market_order"
        tr == call_exchange(exchange.trace, create, ext.op)
        order == [symbol |-> symbol_normalized, side |-> side_normalized, amount |-> amount, price |-> price]
    IN  with_environ(load_dotenv(environ, dotfile),
        IF credentials.api_key = "" \/ credentials.secret = ""
        THEN Done(ErrM("set the API_KEY and SECRET environment variables to place an order", md), <<>>)
        ELSE IF exchange.exc = "ValueError"
        THEN Done(ErrM("unsupported exchange or bad parameter", md), exchange.trace)
        ELSE IF exchange.exc # "none"
        THEN Done(ErrM("placing the spot order failed", md), exchange.trace)
        ELSE IF ext.op = "ok"
        THEN Done(Ok([order_id |-> "id", symbol |-> order.symbol, side |-> order.side, amount |-> order.amount, price |-> order.price, type |-> order_type_normalized, status |-> "open", timestamp |-> "time", datetime |-> "time"], md @@ [timestamp |-> "time"]), tr)
        ELSE IF ext.op = "ValueError"
        THEN Done(ErrM("unsupported exchange or bad parameter", md), tr)
        ELSE Done(ErrM("placing the spot order failed", md), tr))

get_spot_orders(symbol, exchange_name, environ, dotfile, ext) ==
    IF Blank(exchange_name)
    THEN Done(Err("exchange name must not be empty"), <<>>)
    ELSE
    LET symbol_normalized == IF ~Blank(symbol) THEN upper(strip(symbol)) ELSE None
        exchange_normalized == lower(strip(exchange_name))
        credentials == _get_api_credentials(exchange_normalized, environ, dotfile)
        md == [exchange |-> exchange_normalized]
        exchange == _get_exchange(exchange_normalized, credentials.api_key, credentials.secret, credentials.password, ext)
        tr == call_exchange(exchange.trace, "fetch_orders", ext.op)
    IN  with_environ(load_dotenv(environ, dotfile),
        IF credentials.api_key = "" \/ credentials.secret = ""
        THEN Done(ErrM("set the API_KEY and SECRET environment variables to fetch the orders", md), <<>>)
        ELSE IF exchange.exc = "ValueError"
        THEN Done(ErrM("unsupported exchange", md), exchange.trace)
        ELSE IF exchange.exc # "none"
        THEN Done(ErrM("fetching the spot orders failed", md @@ [symbol |-> symbol_normalized]), exchange.trace)
        ELSE IF ext.op = "ok"
        THEN Done(Ok([orders |-> "orders", count |-> "count"], md @@ [symbol |-> symbol_normalized, timestamp |-> "time"]), tr)
        ELSE IF ext.op = "ValueError"
        THEN Done(ErrM("unsupported exchange", md), tr)
        ELSE Done(ErrM("fetching the spot orders failed", md @@ [symbol |-> symbol_normalized]), tr))

cancel_spot_order(order_id, symbol, exchange_name, environ, dotfile, ext) ==
    IF Blank(order_id)
    THEN Done(Err("order id must not be empty"), <<>>)
    ELSE IF Blank(symbol)
    THEN Done(Err("symbol must not be empty, give a pair such as BTC/USDT"), <<>>)
    ELSE IF Blank(exchange_name)
    THEN Done(Err("exchange name must not be empty"), <<>>)
    ELSE
    LET order_id_normalized == strip(order_id)
        symbol_normalized == upper(strip(symbol))
        exchange_normalized == lower(strip(exchange_name))
        credentials == _get_api_credentials(exchange_normalized, environ, dotfile)
        md == [exchange |-> exchange_normalized, order_id |-> order_id_normalized, symbol |-> symbol_normalized]
        exchange == _get_exchange(exchange_normalized, credentials.api_key, credentials.secret, credentials.password, ext)
        tr == call_exchange(exchange.trace, "cancel_order", ext.op)
    IN  with_environ(load_dotenv(environ, dotfile),
        IF credentials.api_key = "" \/ credentials.secret = ""
        THEN Done(ErrM("set the API_KEY and SECRET environment variables to cancel an order", md), <<>>)
        ELSE IF exchange.exc = "ValueError"
        THEN Done(ErrM("unsupported exchange", md), exchange.trace)
        ELSE IF exchange.exc # "none"
        THEN Done(ErrM("cancelling the spot order failed", md), exchange.trace)
        ELSE IF ext.op = "ok"
        THEN Done(Ok([order_id |-> order_id_normalized, symbol |-> symbol_normalized, status |-> "canceled"], md @@ [timestamp |-> "time"]), tr)
        ELSE IF ext.op = "ValueError"
        THEN Done(ErrM("unsupported exchange", md), tr)
        ELSE Done(ErrM("cancelling the spot order failed", md), tr))

get_spot_open_orders(symbol, exchange_name, environ, dotfile, ext) ==
    IF Blank(exchange_name)
    THEN Done(Err("exchange name must not be empty"), <<>>)
    ELSE
    LET symbol_normalized == IF ~Blank(symbol) THEN upper(strip(symbol)) ELSE None
        exchange_normalized == lower(strip(exchange_name))
        credentials == _get_api_credentials(exchange_normalized, environ, dotfile)
        md == [exchange |-> exchange_normalized]
        exchange == _get_exchange(exchange_normalized, credentials.api_key, credentials.secret, credentials.password, ext)
        tr == call_exchange(exchange.trace, "fetch_open_orders", ext.op)
    IN  with_environ(load_dotenv(environ, dotfile),
        IF credentials.api_key = "" \/ credentials.secret = ""
        THEN Done(ErrM("set the API_KEY and SECRET environment variables to fetch the open orders", md), <<>>)
        ELSE IF exchange.exc = "ValueError"
        THEN Done(ErrM("unsupported exchange", md), exchange.trace)
        ELSE IF exchange.exc # "none"
        THEN Done(ErrM("fetching the open spot orders failed", md @@ [symbol |-> symbol_normalized]), exchange.trace)
        ELSE IF ext.op = "ok"
        THEN Done(Ok([orders |-> "orders", count |-> "count"], md @@ [symbol |-> symbol_normalized, timestamp |-> "time"]), tr)
        ELSE IF ext.op = "ValueError"
        THEN Done(ErrM("unsupported exchange", md), tr)
        ELSE Done(ErrM("fetching the open spot orders failed", md @@ [symbol |-> symbol_normalized]), tr))

get_spot_closed_orders(symbol, exchange_name, environ, dotfile, ext) ==
    IF Blank(exchange_name)
    THEN Done(Err("exchange name must not be empty"), <<>>)
    ELSE
    LET symbol_normalized == IF ~Blank(symbol) THEN upper(strip(symbol)) ELSE None
        exchange_normalized == lower(strip(exchange_name))
        credentials == _get_api_credentials(exchange_normalized, environ, dotfile)
        md == [exchange |-> exchange_normalized]
        exchange == _get_exchange(exchange_normalized, credentials.api_key, credentials.secret, credentials.password, ext)
        tr == call_exchange(exchange.trace, "fetch_closed_orders", ext.op)
    IN  with_environ(load_dotenv(environ, dotfile),
        IF credentials.api_key = "" \/ credentials.secret = ""
        THEN Done(ErrM("set the API_KEY and SECRET environment variables to fetch the closed orders", md), <<>>)
        ELSE IF exchange.exc = "ValueError"
        THEN Done(ErrM("unsupported exchange", md), exchange.trace)
        ELSE IF exchange.exc # "none"
        THEN Done(ErrM("fetching the closed spot orders failed", md @@ [symbol |-> symbol_normalized]), exchange.trace)
        ELSE IF ext.op = "ok"
        THEN Done(Ok([orders |-> "orders", count |-> "count"], md @@ [symbol |-> symbol_normalized, timestamp |-> "time"]), tr)
        ELSE IF ext.op = "ValueError"
        THEN Done(ErrM("unsupported exchange", md), tr)
        ELSE Done(ErrM("fetching the closed spot orders failed", md @@ [symbol |-> symbol_normalized]), tr))

get_spot_order_detail(order_id, symbol, exchange_name, environ, dotfile, ext) ==
    IF Blank(order_id)
    THEN Done(Err("order id must not be empty"), <<>>)
    ELSE IF Blank(symbol)
    THEN Done(Err("symbol must not be empty, give a pair such as BTC/USDT"), <<>>)
    ELSE IF Blank(exchange_name)
    THEN Done(Err("exchange name must not be empty"), <<>>)
    ELSE
    LET order_id_normalized == strip(order_id)
        symbol_normalized == upper(strip(symbol))
        exchange_normalized == lower(strip(exchange_name))
        credentials == _get_api_credentials(exchange_normalized, environ, dotfile)
        md == [exchange |-> exchange_normalized, order_id |-> order_id_normalized, symbol |-> symbol_normalized]
        exchange == _get_exchange(exchange_normalized, credentials.api_key, credentials.secret, credentials.password, ext)
        tr == call_exchange(exchange.trace, "fetch_order", ext.op)
    IN  with_environ(load_dotenv(environ, dotfile),
        IF credentials.api_key = "" \/ credentials.secret = ""
        THEN Done(ErrM("set the API_KEY and SECRET environment variables to look an order up", md), <<>>)
        ELSE IF exchange.exc = "ValueError"
        THEN Done(ErrM("unsupported exchange", md), exchange.trace)
        ELSE IF exchange.exc # "none"
        THEN Done(ErrM("looking the spot order up failed", md), exchange.trace)
        ELSE IF ext.op = "ok"
        THEN Done(Ok("order_detail", md @@ [timestamp |-> "time"]), tr)
        ELSE IF ext.op = "ValueError"
        THEN Done(ErrM("unsupported exchange", md), tr)
        ELSE Done(ErrM("looking the spot order up failed", md), tr))

(***************************************************************************)
(* crypto_trade_agent: futures tools.  The amounts and prices handed to a  *)
(* tool are counted in thousandths, so 1500 stands for 1.5; the contract   *)
(* count and the price of a futures order are [units, decimals], which     *)
(* stands for units / 10**decimals.                                        *)
(***************************************************************************)
\* len(precision.split('.')[1]) for a string holding one '.'
PrecisionDigits(precision) == Len(precision) - (CHOOSE i \in 1..Len(precision) : precision[i] = ".")

(***************************************************************************)
(* Python float arithmetic (IEEE 754 binary64, round to nearest, ties to   *)
(* even).  A mantissa has 53 bits, more than an integer of the model       *)
(* holds, so a natural number is a sequence of limbs below 2^15, least     *)
(* significant first and without leading zero limbs; a float is m * 2^e    *)
(* with 2^52 <= m < 2^53, or zero.                                         *)
(***************************************************************************)
RECURSIVE big(_)
big(n) == IF n = 0 THEN <<>> ELSE <<n % (2^15)>> \o big(n \div (2^15))

RECURSIVE big_int(_)
big_int(x) == IF x = <<>> THEN 0 ELSE Head(x) + (2^15) * big_int(Tail(x))

RECURSIVE big_trim(_)
big_trim(x) == IF x # <<>> /\ x[Len(x)] = 0 THEN big_trim(SubSeq(x, 1, Len(x) - 1)) ELSE x

\* x * k + carry for k below 2^15
RECURSIVE big_mul_small(_, _, _)
big_mul_small(x, k, carry) ==
    IF x = <<>> THEN big(carry)
    ELSE <<(Head(x) * k + carry) % (2^15)>> \o big_mul_small(Tail(x), k, (Head(x) * k + carry) \div (2^15))

\* x - y - borrow for x >= y + borrow, limbs not yet trimmed
RECURSIVE big_sub(_, _, _)
big_sub(x, y, borrow) ==
    IF x = <<>> THEN <<>>
    ELSE LET d == Head(x) - (IF y = <<>> THEN 0 ELSE Head(y)) - borrow
         IN  <<d % (2^15)>> \o big_sub(Tail(x), IF y = <<>> THEN <<>> ELSE Tail(y), IF d < 0 THEN 1 ELSE 0)

\* -1, 0 or 1 as x is below, equal to or above y
RECURSIVE big_cmp(_, _)
big_cmp(x, y) ==
    IF Len(x) # Len(y) THEN (IF Len(x) < Len(y) THEN -1 ELSE 1)
    ELSE IF x = <<>> THEN 0
    ELSE IF x[Len(x)] # y[Len(y)] THEN (IF x[Len(x)] < y[Len(y)] THEN -1 ELSE 1)
    ELSE big_cmp(big_trim(SubSeq(x, 1, Len(x) - 1)), big_trim(SubSeq(y, 1, Len(y) - 1)))

\* x * 2^k
RECURSIVE big_shl(_, _)
big_shl(x, k) ==
    IF k = 0 THEN x
    ELSE IF k >= 14 THEN big_shl(big_mul_small(x, 2^14, 0), k - 14)
    ELSE big_mul_small(x, 2^k, 0)

\* x * 10^d
RECURSIVE big_mul_pow10(_, _)
big_mul_pow10(x, d) == IF d = 0 THEN x ELSE big_mul_pow10(big_mul_small(x, 10, 0), d - 1)

\* the number of binary digits of n
RECURSIVE bit_length(_)
bit_length(n) == IF n = 0 THEN 0 ELSE 1 + bit_length(n \div 2)

big_bit_length(x) == IF x = <<>> THEN 0 ELSE 15 * (Len(x) - 1) + bit_length(x[Len(x)])

\* the largest k in lo..hi with k * d <= r, where lo * d <= r
RECURSIVE quotient_digit(_, _, _, _)
quotient_digit(r, d, lo, hi) ==
    IF lo = hi THEN lo
    ELSE IF big_cmp(big_mul_small(d, (lo + hi + 1) \div 2, 0), r) <= 0
         THEN quotient_digit(r, d, (lo + hi + 1) \div 2, hi)
         ELSE quotient_digit(r, d, lo, ((lo + hi + 1) \div 2) - 1)

\* quotient and remainder of n by d > 0, limb by limb from the most
\* significant; the leading limbs of the remainder and of d bound each digit
RECURSIVE big_divmod(_, _)
big_divmod(n, d) ==
    IF n = <<>> THEN [q |-> <<>>, r |-> <<>>]
    ELSE LET high == big_divmod(Tail(n), d)
             r == big_trim(<<Head(n)>> \o high.r)
             leading == (IF Len(r) > Len(d) THEN r[Len(d) + 1] * 2^15 ELSE 0) + (IF Len(r) >= Len(d) THEN r[Len(d)] ELSE 0)
             most == leading \div d[Len(d)]
             digit == IF Len(d) = 1 THEN big_int(r) \div d[1]
                      ELSE quotient_digit(r, d, leading \div (d[Len(d)] + 1), IF most < 2^15 THEN most ELSE 2^15 - 1)
         IN  [q |-> big_trim(<<digit>> \o high.q), r |-> big_trim(big_sub(r, big_mul_small(d, digit, 0), 0))]

\* the quotient q, of 53 bits, rounded to nearest where half tells how the
\* discarded part compares with one half (-1, 0 or 1), ties to even; a carry
\* into a 54th bit leaves 2^53, which is 2^52 with the exponent raised
round_half(q, half, e) ==
    IF half > 0 \/ (half = 0 /\ Head(q) % 2 = 1)
    THEN (IF big_bit_length(big_mul_small(q, 1, 1)) = 54
          THEN [m |-> big_shl(<<1>>, 52), e |-> e + 1]
          ELSE [m |-> big_mul_small(q, 1, 1), e |-> e])
    ELSE [m |-> q, e |-> e]

\* a quotient of 53 or 54 bits and its remainder, rounded to 53 bits: the
\* lowest of 54 bits is discarded along with the remainder
round_divided(divided, divisor, e) ==
    IF big_bit_length(divided.q) = 54
    THEN round_half(big_divmod(divided.q, <<2>>).q,
                    IF Head(divided.q) % 2 = 0 THEN -1 ELSE IF divided.r = <<>> THEN 0 ELSE 1,
                    e + 1)
    ELSE round_half(divided.q, big_cmp(big_mul_small(divided.r, 2, 0), divisor), e)

\* the float nearest to n / d * 2^e for natural numbers n and d > 0, ties to
\* even: d is shifted to fill its leading limb and n until the quotient has 53
\* or 54 bits
round_ratio(n, d, e) ==
    IF n = <<>> THEN [m |-> <<>>, e |-> 0]
    ELSE
    LET k == 53 + big_bit_length(d) - big_bit_length(n)
        fill == 15 * Len(d) - big_bit_length(d)
    IN  round_divided(big_divmod(big_shl(n, fill + (IF k >= 0 THEN k ELSE 0)), big_shl(d, fill + (IF k >= 0 THEN 0 ELSE 0 - k))),
                      big_shl(d, fill + (IF k >= 0 THEN 0 ELSE 0 - k)),
                      e - k)

\* math.floor(x) for a float x >= 0
float_floor(x) ==
    IF x.e >= 0 THEN big_int(big_shl(x.m, x.e))
    ELSE IF (0 - x.e) \div 15 >= Len(x.m) THEN 0
    ELSE big_int(big_divmod(SubSeq(x.m, ((0 - x.e) \div 15) + 1, Len(x.m)), <<2^((0 - x.e) % 15)>>).q)

\* the float a decimal literal of so many thousandths denotes
float_of(thousandths) == round_ratio(big(thousandths), big(1000), 0)

\* x / y in float arithmetic
float_div(x, y) == round_ratio(x.m, y.m, x.e - y.e)

\* x * k in float arithmetic for an integer k with 0 < k < 2^15
float_times(x, k) == round_ratio(big_mul_small(x.m, k, 0), <<1>>, x.e)

\* round(x, ndigits) for a float x >= 0: the exact value of x rounded to
\* ndigits decimals, ties to even, as [units, decimals], which stands for
\* units / 10**decimals
float_round(x, ndigits) ==
    IF x.e >= 0 THEN [units |-> big_int(big_mul_pow10(big_shl(x.m, x.e), ndigits)), decimals |-> ndigits]
    ELSE
    LET divided == big_divmod(big_mul_pow10(x.m, ndigits), big_shl(<<1>>, 0 - x.e))
        half == big_cmp(big_mul_small(divided.r, 2, 0), big_shl(<<1>>, 0 - x.e))
        q == big_int(divided.q)
    IN  [units |-> IF half > 0 \/ (half = 0 /\ q % 2 = 1) THEN q + 1 ELSE q, decimals |-> ndigits]

\* math.floor(x * 10**d) / 10**d when '.' is in the precision string and d
\* digits follow it, math.floor(x) otherwise: the result is [units, decimals],
\* which stands for units / 10**decimals, the floored number over the power
\* of ten it is divided by
floor_to_precision(x, precision) ==
    IF Contains(".", precision)
    THEN [units |-> float_floor(round_ratio(big_mul_pow10(x.m, PrecisionDigits(precision)), <<1>>, x.e)), decimals |-> PrecisionDigits(precision)]
    ELSE [units |-> float_floor(x), decimals |-> 0]

FuturesSides == {<<"o","p","e","n","_","l","o","n","g">>, <<"o","p","e","n","_","s","h","o","r","t">>, <<"c","l","o","s","e","_","l","o","n","g">>, <<"c","l","o","s","e","_","s","h","o","r","t">>}

\* an order side that follows the position: buy for long, sell for short
new_side_following_position(side_normalized) ==
    IF side_normalized = <<"o","p","e","n","_","l","o","n","g">> THEN "buy"
    ELSE IF side_normalized = <<"o","p","e","n","_","s","h","o","r","t">> THEN "sell"
    ELSE IF side_normalized = <<"c","l","o","s","e","_","l","o","n","g">> THEN "buy"
    ELSE IF side_normalized = <<"c","l","o","s","e","_","s","h","o","r","t">> THEN "sell"
    ELSE ""

\* new_side of place_futures_order
new_side(side_normalized) ==
    IF side_normalized = <<"o","p","e","n","_","l","o","n","g">> THEN "buy"
    ELSE IF side_normalized = <<"o","p","e","n","_","s","h","o","r","t">> THEN "sell"
    ELSE IF side_normalized = <<"c","l","o","s","e","_","l","o","n","g">> THEN "sell"
    ELSE IF side_normalized = <<"c","l","o","s","e","_","s","h","o","r","t">> THEN "buy"
    ELSE ""

\* params['positionSide'] of place_futures_order
positionSide(exchange_normalized, side_normalized) ==
    LET long == side_normalized \in {<<"o","p","e","n","_","l","o","n","g">>, <<"c","l","o","s","e","_","l","o","n","g">>}
        short == side_normalized \in {<<"o","p","e","n","_","s","h","o","r","t">>, <<"c","l","o","s","e","_","s","h","o","r","t">>}
    IN  IF exchange_normalized = BINANCE
        THEN (IF long THEN "LONG" ELSE IF short THEN "SHORT" ELSE "None")
        ELSE (IF long THEN "long" ELSE IF short THEN "short" ELSE "None")

place_futures_order(symbol, side, amount, price, exchange_name, environ, dotfile, ext) ==
    LET order_type == <<"l","i","m","i","t">>
        LIMIT == <<"l","i","m","i","t">>
        MARKET == <<"m","a","r","k","e","t">>
    IN
    IF Blank(symbol)
    THEN Done(Err("symbol must not be empty, give a pair such as BTC/USDT:USDT"), <<>>)
    ELSE IF ~Contains(":", symbol)
    THEN Done(Err("bad symbol format, give a pair such as BTC/USDT:USDT"), <<>>)
    ELSE IF side = <<>> \/ lower(strip(side)) \notin FuturesSides
    THEN Done(Err("side must be open_long, open_short, close_long or close_short"), <<>>)
    ELSE IF amount <= 0
    THEN Done(Err("amount must be a number greater than 0"), <<>>)
    ELSE IF order_type = <<>> \/ lower(strip(order_type)) \notin {LIMIT, MARKET}
    THEN Done(Err("order type must be limit or market"), <<>>)
    ELSE IF lower(strip(order_type)) = LIMIT /\ price <= 0
    THEN Done(Err("a limit order needs a price greater than 0"), <<>>)
    ELSE IF Blank(exchange_name)
    THEN Done(Err("exchange name must not be empty"), <<>>)
    ELSE
    LET symbol_normalized == upper(strip(symbol))
        side_normalized == lower(strip(side))
        order_type_normalized == lower(strip(order_type))
        exchange_normalized == lower(strip(exchange_name))
        credentials == _get_api_credentials(exchange_normalized, environ, dotfile)
        md == [exchange |-> exchange_normalized, symbol |-> symbol_normalized]
        exchange == _get_exchange(exchange_normalized, credentials.api_key, credentials.secret, credentials.password, ext)
        market == ext.market
        sheet == floor_to_precision(float_div(float_of(amount), float_of(market.contractSize)), market.amount_precision)
        floored_price == floor_to_precision(float_of(price), market.price_precision)
        create == IF order_type_normalized = LIMIT THEN "create_limit_order" ELSE "create_market_order"
        tr == call_exchange(exchange.trace, create, ext.op)
        order == [symbol |-> symbol_normalized, side |-> new_side(side_normalized), amount |-> sheet, price |-> floored_price, positionSide |-> positionSide(exchange_normalized, side_normalized)]
    IN  with_environ(load_dotenv(environ, dotfile),
        IF credentials.api_key = "" \/ credentials.secret = ""
        THEN Done(ErrM("set the API_KEY and SECRET environment variables to place a futures order", md), <<>>)
        ELSE IF exchange.exc = "ValueError"
        THEN Done(ErrM("unsupported exchange or bad parameter", md), exchange.trace)
        ELSE IF exchange.exc # "none"
        THEN Done(ErrM("placing the futures order failed", md), exchange.trace)
        ELSE IF ~market.listed
        THEN Done(ErrM("placing the futures order failed", md), exchange.trace)
        ELSE IF market.contractSize = 0
        THEN Done(ErrM("placing the futures order failed", md), exchange.trace)
        ELSE IF ext.op = "ok"
        THEN Done(Ok([order_id |-> "id", symbol |-> order.symbol, side |-> order.side, amount |-> order.amount, price |-> order.price, type |-> order_type_normalized, status |-> "open", timestamp |-> "time"], md @@ [timestamp |-> "time"]), tr) @@ [sent |-> order]
        ELSE IF ext.op = "ValueError"
        THEN Done(ErrM("unsupported exchange or bad parameter", md), tr) @@ [sent |-> order]
        ELSE Done(ErrM("placing the futures order failed", md), tr) @@ [sent |-> order])

\* the balance is fetched with {'type': 'papi'} on binance and with
\* {'type': 'trading'} on any other exchange
get_futures_balance(exchange_name, environ, dotfile, ext) ==
    IF Blank(exchange_name)
    THEN Done(Err("exchange name must not be empty"), <<>>)
    ELSE
    LET exchange_normalized == lower(strip(exchange_name))
        credentials == _get_api_credentials(exchange_normalized, environ, dotfile)
        md == [exchange |-> exchange_normalized]
        exchange == _get_exchange(exchange_normalized, credentials.api_key, credentials.secret, credentials.password, ext)
        tr == call_exchange(exchange.trace, "fetch_balance", ext.op)
        type == IF exchange_normalized = BINANCE THEN "papi" ELSE "trading"
    IN  with_environ(load_dotenv(environ, dotfile),
        IF credentials.api_key = "" \/ credentials.secret = ""
        THEN Done(ErrM("set the API_KEY and SECRET environment variables to fetch the futures balance", md), <<>>)
        ELSE IF exchange.exc = "ValueError"
        THEN Done(ErrM("unsupported exchange", md), exchange.trace)
        ELSE IF exchange.exc # "none"
        THEN Done(ErrM("fetching the futures balance failed", md), exchange.trace)
        ELSE IF ext.op = "ok"
        THEN Done(Ok([balance |-> "balance", free |-> "free", used |-> "used", total |-> "total"], md @@ [timestamp |-> "time"]), tr) @@ [type |-> type]
        ELSE IF ext.op = "ValueError"
        THEN Done(ErrM("unsupported exchange", md), tr) @@ [type |-> type]
        ELSE Done(ErrM("fetching the futures balance failed", md), tr) @@ [type |-> type])

get_futures_open_orders(symbol, exchange_name, environ, dotfile, ext) ==
    IF Blank(exchange_name)
    THEN Done(Err("exchange name must not be empty"), <<>>)
    ELSE
    LET symbol_normalized == IF ~Blank(symbol) THEN upper(strip(symbol)) ELSE None
        exchange_normalized == lower(strip(exchange_name))
        credentials == _get_api_credentials(exchange_normalized, environ, dotfile)
        md == [exchange |-> exchange_normalized]
        exchange == _get_exchange(exchange_normalized, credentials.api_key, credentials.secret, credentials.password, ext)
        tr == call_exchange(exchange.trace, "fetch_open_orders", ext.op)
    IN  IF symbol_normalized = None
        THEN Raised("TypeError", <<>>)
        ELSE IF ~Contains(":", symbol_normalized)
        THEN Done(Err("bad symbol format, give a pair such as BTC/USDT:USDT"), <<>>)
        ELSE with_environ(load_dotenv(environ, dotfile),
        IF credentials.api_key = "" \/ credentials.secret = ""
        THEN Done(ErrM("set the API_KEY and SECRET environment variables to fetch the open futures orders", md), <<>>)
        ELSE IF exchange.exc = "ValueError"
        THEN Done(ErrM("unsupported exchange", md), exchange.trace)
        ELSE IF exchange.exc # "none"
        THEN Done(ErrM("fetching the open futures orders failed", md @@ [symbol |-> symbol_normalized]), exchange.trace)
        ELSE IF ext.op = "ok"
        THEN Done(Ok([orders |-> "orders", count |-> "count"], md @@ [symbol |-> symbol_normalized, timestamp |-> "time"]), tr)
        ELSE IF ext.op = "ValueError"
        THEN Done(ErrM("unsupported exchange", md), tr)
        ELSE Done(ErrM("fetching the open futures orders failed", md @@ [symbol |-> symbol_normalized]), tr))

get_futures_closed_orders(symbol, exchange_name, environ, dotfile, ext) ==
    IF Blank(exchange_name)
    THEN Done(Err("exchange name must not be empty"), <<>>)
    ELSE
    LET symbol_normalized == IF ~Blank(symbol) THEN upper(strip(symbol)) ELSE None
        exchange_normalized == lower(strip(exchange_name))
        credentials == _get_api_credentials(exchange_normalized, environ, dotfile)
        md == [exchange |-> exchange_normalized]
        exchange == _get_exchange(exchange_normalized, credentials.api_key, credentials.secret, credentials.password, ext)
        tr == call_exchange(exchange.trace, "fetch_closed_orders", ext.op)
    IN  IF symbol_normalized = None
        THEN Raised("TypeError", <<>>)
        ELSE IF ~Contains(":", symbol_normalized)
        THEN Done(Err("bad symbol format, give a pair such as BTC/USDT:USDT"), <<>>)
        ELSE with_environ(load_dotenv(environ, dotfile),
        IF credentials.api_key = "" \/ credentials.secret = ""
        THEN Done(ErrM("set the API_KEY and SECRET environment variables to fetch the closed futures orders", md), <<>>)
        ELSE IF exchange.exc = "ValueError"
        THEN Done(ErrM("unsupported exchange", md), exchange.trace)
        ELSE IF exchange.exc # "none"
        THEN Done(ErrM("fetching the closed futures orders failed", md @@ [symbol |-> symbol_normalized]), exchange.trace)
        ELSE IF ext.op = "ok"
        THEN Done(Ok([orders |-> "orders", count |-> "count"], md @@ [symbol |-> symbol_normalized, timestamp |-> "time"]), tr)
        ELSE IF ext.op = "ValueError"
        THEN Done(ErrM("unsupported exchange", md), tr)
        ELSE Done(ErrM("fetching the closed futures orders failed", md @@ [symbol |-> symbol_normalized]), tr))

get_futures_order_detail(order_id, symbol, exchange_name, environ, dotfile, ext) ==
    IF Blank(order_id)
    THEN Done(Err("order id must not be empty"), <<>>)
    ELSE IF Blank(symbol)
    THEN Done(Err("symbol must not be empty, give a pair such as BTC/USDT"), <<>>)
    ELSE IF Blank(exchange_name)
    THEN Done(Err("exchange name must not be empty"), <<>>)
    ELSE
    LET order_id_normalized == strip(order_id)
        symbol_normalized == upper(strip(symbol))
        exchange_normalized == lower(strip(exchange_name))
        credentials == _get_api_credentials(exchange_normalized, environ, dotfile)
        md == [exchange |-> exchange_normalized, order_id |-> order_id_normalized, symbol |-> symbol_normalized]
        exchange == _get_exchange(exchange_normalized, credentials.api_key, credentials.secret, credentials.password, ext)
        tr == call_exchange(exchange.trace, "fetch_order", ext.op)
    IN  IF ~Contains(":", symbol_normalized)
        THEN Done(Err("bad symbol format, give a pair such as BTC/USDT:USDT"), <<>>)
        ELSE with_environ(load_dotenv(environ, dotfile),
        IF credentials.api_key = "" \/ credentials.secret = ""
        THEN Done(ErrM("set the API_KEY and SECRET environment variables to look up a futures order", md), <<>>)
        ELSE IF exchange.exc = "ValueError"
        THEN Done(ErrM("unsupported exchange", md), exchange.trace)
        ELSE IF exchange.exc # "none"
        THEN Done(ErrM("looking up the futures order failed", md), exchange.trace)
        ELSE IF ext.op = "ok"
        THEN Done(Ok("order_detail", md @@ [timestamp |-> "time"]), tr)
        ELSE IF ext.op = "ValueError"
        THEN Done(ErrM("unsupported exchange", md), tr)
        ELSE Done(ErrM("looking up the futures order failed", md), tr))

\* no check of the symbol: an empty one asks for all positions, any other
\* is handed to fetch_positions as it is
get_futures_positions(symbol, exchange_name, environ, dotfile, ext) ==
    IF Blank(exchange_name)
    THEN Done(Err("exchange name must not be empty"), <<>>)
    ELSE
    LET symbol_normalized == IF ~Blank(symbol) THEN upper(strip(symbol)) ELSE <<>>
        exchange_normalized == lower(strip(exchange_name))
        credentials == _get_api_credentials(exchange_normalized, environ, dotfile)
        md == [exchange |-> exchange_normalized]
        exchange == _get_exchange(exchange_normalized, credentials.api_key, credentials.secret, credentials.password, ext)
        tr == call_exchange(exchange.trace, "fetch_positions", ext.op)
    IN  with_environ(load_dotenv(environ, dotfile),
        IF credentials.api_key = "" \/ credentials.secret = ""
        THEN Done(ErrM("set the API_KEY and SECRET environment variables to fetch the positions", md), <<>>)
        ELSE IF exchange.exc = "ValueError"
        THEN Done(ErrM("unsupported exchange", md), exchange.trace)
        ELSE IF exchange.exc # "none"
        THEN Done(ErrM("fetching the futures positions failed", md @@ [symbol |-> symbol_normalized]), exchange.trace)
        ELSE IF ext.op = "ok"
        THEN Done(Ok([positions |-> "positions", count |-> "count"], md @@ [symbol |-> symbol_normalized, timestamp |-> "time"]), tr)
        ELSE IF ext.op = "ValueError"
        THEN Done(ErrM("unsupported exchange", md), tr)
        ELSE Done(ErrM("fetching the futures positions failed", md @@ [symbol |-> symbol_normalized]), tr))

cancel_futures_order(order_id, symbol, exchange_name, environ, dotfile, ext) ==
    IF Blank(order_id)
    THEN Done(Err("order id must not be empty"), <<>>)
    ELSE IF Blank(symbol)
    THEN Done(Err("symbol must not be empty, give a pair such as BTC/USDT"), <<>>)
    ELSE IF Blank(exchange_name)
    THEN Done(Err("exchange name must not be empty"), <<>>)
    ELSE
    LET order_id_normalized == strip(order_id)
        symbol_normalized == upper(strip(symbol))
        exchange_normalized == lower(strip(exchange_name))
        credentials == _get_api_credentials(exchange_normalized, environ, dotfile)
        md == [exchange |-> exchange_normalized, order_id |-> order_id_normalized, symbol |-> symbol_normalized]
        exchange == _get_exchange(exchange_normalized, credentials.api_key, credentials.secret, credentials.password, ext)
        tr == call_exchange(exchange.trace, "cancel_order", ext.op)
    IN  IF ~Contains(":", symbol_normalized)
        THEN Done(Err("bad symbol format, give a pair such as BTC/USDT:USDT"), <<>>)
        ELSE with_environ(load_dotenv(environ, dotfile),
        IF credentials.api_key = "" \/ credentials.secret = ""
        THEN Done(ErrM("set the API_KEY and SECRET environment variables to cancel a futures order", md), <<>>)
        ELSE IF exchange.exc = "ValueError"
        THEN Done(ErrM("unsupported exchange", md), exchange.trace)
        ELSE IF exchange.exc # "none"
        THEN Done(ErrM("cancelling the futures order failed", md), exchange.trace)
        ELSE IF ext.op = "ok"
        THEN Done(Ok([order_id |-> order_id_normalized, symbol |-> symbol_normalized, status |-> "canceled"], md @@ [timestamp |-> "time"]), tr)
        ELSE IF ext.op = "ValueError"
        THEN Done(ErrM("unsupported exchange", md), tr)
        ELSE Done(ErrM("cancelling the futures order failed", md), tr))

(***************************************************************************)
(* crypto_trade_agent: savings tools.  A "malformed" answer is a mapping   *)
(* without the expected keys: .get() with a default shapes it, indexing    *)
(* raises KeyError.                                                        *)
(***************************************************************************)
\* binance: asset, rate and productId of each row, where the productId of the
\* row listed for an asset is the asset followed by 001; okx: the row's ccy is
\* both the asset and the productId
RECURSIVE products_of(_, _)
products_of(assets, exchange_normalized) ==
    IF assets = <<>> THEN <<>>
    ELSE <<[asset |-> Head(assets), rate |-> "rate",
            productId |-> IF exchange_normalized = BINANCE THEN Head(assets) \o <<"0", "0", "1">> ELSE Head(assets)]>>
         \o products_of(Tail(assets), exchange_normalized)

get_savings_products(exchange_name, environ, dotfile, ext) ==
    IF Blank(exchange_name)
    THEN Done(Err("exchange name must not be empty"), <<>>)
    ELSE
    LET exchange_normalized == lower(strip(exchange_name))
        credentials == _get_api_credentials(exchange_normalized, environ, dotfile)
        md == [exchange |-> exchange_normalized]
        exchange == _get_exchange(exchange_normalized, credentials.api_key, credentials.secret, credentials.password, ext)
        list == IF exchange_normalized = BINANCE THEN "sapi_get_simple_earn_flexible_list" ELSE "public_get_finance_savings_lending_rate_summary"
        tr == call_exchange(exchange.trace, list, ext.op)
        listed == IF ext.op = "ok" THEN products_of(ext.products, exchange_normalized) ELSE <<>>
    IN  IF exchange_normalized \notin {BINANCE, OKX}
        THEN Done(ErrM("savings are supported on binance and okx only", md), <<>>)
        ELSE with_environ(load_dotenv(environ, dotfile),
        IF credentials.api_key = "" \/ credentials.secret = ""
        THEN Done(ErrM("set the API_KEY and SECRET environment variables to list the savings products", md), <<>>)
        ELSE IF exchange.exc = "ValueError"
        THEN Done(ErrM("unsupported exchange", md), exchange.trace)
        ELSE IF exchange.exc # "none"
        THEN Done(ErrM("listing the savings products failed", md), exchange.trace)
        ELSE IF ext.op = "ok" \/ (ext.op = "malformed" /\ exchange_normalized = OKX)
        THEN Done(Ok([products |-> listed, count |-> Len(listed)], md @@ [timestamp |-> "time"]), tr)
        ELSE IF ext.op = "AttributeError"
        THEN Done(ErrM("this CCXT version has no savings API", md), tr)
        ELSE IF ext.op = "ValueError"
        THEN Done(ErrM("unsupported exchange", md), tr)
        ELSE Done(ErrM("listing the savings products failed", md), tr))

\* the first product whose asset equals the asked one, compared in upper case
RECURSIVE first_yield(_, _)
first_yield(products, asset) ==
    IF products = <<>> THEN [found |-> FALSE]
    ELSE IF upper(Head(products).asset) = upper(asset) THEN [found |-> TRUE, rate |-> Head(products).rate]
    ELSE first_yield(Tail(products), asset)

get_savings_yield_by_asset(asset, exchange_name, environ, dotfile, ext) ==
    LET found(called, hit) ==
            IF called.outcome.value.status = "success" /\ hit.found
            THEN Done([status |-> "success", data |-> [yield |-> hit.rate]], called.trace)
            ELSE Done(Err("fetching the savings yield failed"), called.trace)
        answer(called) ==
            IF called.outcome.value.status = "success"
            THEN found(called, first_yield(called.outcome.value.data.products, asset))
            ELSE found(called, [found |-> FALSE])
        yielded(called) == IF "environ" \in DOMAIN called THEN with_environ(called.environ, answer(called)) ELSE answer(called)
    IN  yielded(get_savings_products(exchange_name, environ, dotfile, ext))

redeem_savings_product(asset, amount, exchange_name, environ, dotfile, ext) ==
    IF Blank(asset)
    THEN Done(Err("asset must not be empty, give a coin such as USDT"), <<>>)
    ELSE IF amount <= 0
    THEN Done(Err("amount to redeem must be a number greater than 0"), <<>>)
    ELSE IF Blank(exchange_name)
    THEN Done(Err("exchange name must not be empty"), <<>>)
    ELSE
    LET asset_normalized == upper(strip(asset))
        exchange_normalized == lower(strip(exchange_name))
        credentials == _get_api_credentials(exchange_normalized, environ, dotfile)
        md == [exchange |-> exchange_normalized, asset |-> asset_normalized]
        exchange == _get_exchange(exchange_normalized, credentials.api_key, credentials.secret, credentials.password, ext)
        redeem == IF exchange_normalized = BINANCE THEN "sapi_post_simple_earn_flexible_redeem" ELSE "private_post_finance_savings_purchase_redempt"
        tr == call_exchange(exchange.trace, redeem, ext.op)
        shaped == IF exchange_normalized = BINANCE THEN [asset |-> asset_normalized, amount |-> amount, redeemId |-> "id", success |-> "flag"] ELSE [ccy |-> asset_normalized, amt |-> amount, code |-> "code", msg |-> "msg", data |-> "data"]
    IN  IF exchange_normalized \notin {BINANCE, OKX}
        THEN Done(ErrM("savings are supported on binance and okx only", md), <<>>)
        ELSE with_environ(load_dotenv(environ, dotfile),
        IF credentials.api_key = "" \/ credentials.secret = ""
        THEN Done(ErrM("set the API_KEY and SECRET environment variables to redeem savings", md), <<>>)
        ELSE IF exchange.exc = "ValueError"
        THEN Done(ErrM("unsupported exchange", md), exchange.trace)
        ELSE IF exchange.exc # "none"
        THEN Done(ErrM("redeeming the savings product failed", md), exchange.trace)
        ELSE IF ext.op \in {"ok", "malformed"}
        THEN Done(Ok(shaped, md @@ [timestamp |-> "time"]), tr)
        ELSE IF ext.op = "AttributeError"
        THEN Done(ErrM("this CCXT version has no savings redeem API", md), tr)
        ELSE IF ext.op = "ValueError"
        THEN Done(ErrM("unsupported exchange", md), tr)
        ELSE Done(ErrM("redeeming the savings product failed", md), tr))

purchase_savings_product(asset, amount, exchange_name, environ, dotfile, ext) ==
    IF Blank(asset)
    THEN Done(Err("asset must not be empty, give a coin such as USDT"), <<>>)
    ELSE IF amount <= 0
    THEN Done(Err("amount to purchase must be a number greater than 0"), <<>>)
    ELSE IF Blank(exchange_name)
    THEN Done(Err("exchange name must not be empty"), <<>>)
    ELSE
    LET asset_normalized == upper(strip(asset))
        exchange_normalized == lower(strip(exchange_name))
        credentials == _get_api_credentials(exchange_normalized, environ, dotfile)
        md == [exchange |-> exchange_normalized, asset |-> asset_normalized]
        exchange == _get_exchange(exchange_normalized, credentials.api_key, credentials.secret, credentials.password, ext)
        subscribe == IF exchange_normalized = BINANCE THEN "sapi_post_simple_earn_flexible_subscribe" ELSE "private_post_finance_savings_purchase_redempt"
        tr == call_exchange(exchange.trace, subscribe, ext.op)
        shaped == IF exchange_normalized = BINANCE THEN [asset |-> asset_normalized, amount |-> amount, purchaseId |-> "id", success |-> "flag"] ELSE [ccy |-> asset_normalized, amt |-> amount, code |-> "code", msg |-> "msg", data |-> "data"]
    IN  IF exchange_normalized \notin {BINANCE, OKX}
        THEN Done(ErrM("savings are supported on binance and okx only", md), <<>>)
        ELSE with_environ(load_dotenv(environ, dotfile),
        IF credentials.api_key = "" \/ credentials.secret = ""
        THEN Done(ErrM("set the API_KEY and SECRET environment variables to purchase savings", md), <<>>)
        ELSE IF exchange.exc = "ValueError"
        THEN Done(ErrM("unsupported exchange", md), exchange.trace)
        ELSE IF exchange.exc # "none"
        THEN Done(ErrM("purchasing the savings product failed", md), exchange.trace)
        ELSE IF ext.op \in {"ok", "malformed"}
        THEN Done(Ok(shaped, md @@ [timestamp |-> "time"]), tr)
        ELSE IF ext.op = "AttributeError"
        THEN Done(ErrM("this CCXT version has no savings purchase API", md), tr)
        ELSE IF ext.op = "ValueError"
        THEN Done(ErrM("unsupported exchange", md), tr)
        ELSE Done(ErrM("purchasing the savings product failed", md), tr))

\* binance: the rows of sapi_get_simple_earn_flexible_position(), indexed by
\* 'rows'; okx: private_get_finance_savings_balance(), read with .get('data', [])
get_savings_balance(exchange_name, environ, dotfile, ext) ==
    IF Blank(exchange_name)
    THEN Done(Err("exchange name must not be empty"), <<>>)
    ELSE
    LET exchange_normalized == lower(strip(exchange_name))
        credentials == _get_api_credentials(exchange_normalized, environ, dotfile)
        md == [exchange |-> exchange_normalized]
        exchange == _get_exchange(exchange_normalized, credentials.api_key, credentials.secret, credentials.password, ext)
        position == IF exchange_normalized = BINANCE THEN "sapi_get_simple_earn_flexible_position" ELSE "private_get_finance_savings_balance"
        tr == call_exchange(exchange.trace, position, ext.op)
        held == IF ext.op = "ok" THEN "positions" ELSE <<>>
    IN  IF exchange_normalized \notin {BINANCE, OKX}
        THEN Done(ErrM("savings are supported on binance and okx only", md), <<>>)
        ELSE with_environ(load_dotenv(environ, dotfile),
        IF credentials.api_key = "" \/ credentials.secret = ""
        THEN Done(ErrM("set the API_KEY and SECRET environment variables to fetch the savings positions", md), <<>>)
        ELSE IF exchange.exc = "ValueError"
        THEN Done(ErrM("unsupported exchange", md), exchange.trace)
        ELSE IF exchange.exc # "none"
        THEN Done(ErrM("fetching the savings positions failed", md), exchange.trace)
        ELSE IF ext.op = "ok" \/ (ext.op = "malformed" /\ exchange_normalized = OKX)
        THEN Done(Ok([positions |-> held, count |-> IF ext.op = "ok" THEN "count" ELSE 0], md @@ [timestamp |-> "time"]), tr)
        ELSE IF ext.op = "AttributeError"
        THEN Done(ErrM("this CCXT version has no savings position API", md), tr)
        ELSE IF ext.op = "ValueError"
        THEN Done(ErrM("unsupported exchange", md), tr)
        ELSE Done(ErrM("fetching the savings positions failed", md), tr))

(***************************************************************************)
(* crypto_market_agent: public market data, anonymous handle.              *)
(***************************************************************************)
get_ticker_data(symbol, exchange_name, ext) ==
    IF Blank(symbol)
    THEN Done(Err("symbol must not be empty, give a pair such as BTC/USDT"), <<>>)
    ELSE IF Blank(exchange_name)
    THEN Done(Err("exchange name must not be empty"), <<>>)
    ELSE
    LET symbol_normalized == upper(strip(symbol))
        exchange_normalized == lower(strip(exchange_name))
        md == [exchange |-> exchange_normalized, symbol |-> symbol_normalized]
        exchange == market_get_exchange(exchange_normalized)
        tr == call_exchange(exchange.trace, "fetch_ticker", ext.op)
    IN  IF exchange.exc = "ValueError"
        THEN Done(ErrM("unsupported exchange or symbol", md), exchange.trace)
        ELSE IF ext.op = "ok"
        THEN Done(Ok([last |-> "last", bid |-> "bid", ask |-> "ask", high |-> "high", low |-> "low", open |-> "open", close |-> "close", volume |-> "baseVolume", quoteVolume |-> "quoteVolume", change |-> "change", percentage |-> "percentage", timestamp |-> "time", datetime |-> "time"], md @@ [timestamp |-> "time"]), tr)
        ELSE IF ext.op = "ValueError"
        THEN Done(ErrM("unsupported exchange or symbol", md), tr)
        ELSE Done(ErrM("fetching the price failed", md), tr)

\* Python: lst[:n] for n >= 0
Slice(lst, n) == SubSeq(lst, 1, IF n < Len(lst) THEN n ELSE Len(lst))

\* Python: sum(level[1] for level in levels)
RECURSIVE sum_amounts(_)
sum_amounts(levels) == IF levels = <<>> THEN 0 ELSE Head(levels)[2] + sum_amounts(Tail(levels))

get_orderbook_data(symbol, exchange_name, limit, ext) ==
    IF Blank(symbol)
    THEN Done(Err("symbol must not be empty, give a pair such as BTC/USDT"), <<>>)
    ELSE IF Blank(exchange_name)
    THEN Done(Err("exchange name must not be empty"), <<>>)
    ELSE IF limit <= 0
    THEN Done(Err("depth must be an integer greater than 0"), <<>>)
    ELSE IF limit > 100
    THEN Done(Err("depth must not exceed 100"), <<>>)
    ELSE
    LET symbol_normalized == upper(strip(symbol))
        exchange_normalized == lower(strip(exchange_name))
        md == [exchange |-> exchange_normalized, symbol |-> symbol_normalized]
        exchange == market_get_exchange(exchange_normalized)
        tr == call_exchange(exchange.trace, "fetch_order_book", ext.op)
        orderbook == ext.book
        \* <<>> stands for None, <<x>> for the number x
        spread == IF orderbook.bids # <<>> /\ orderbook.asks # <<>> THEN <<orderbook.asks[1][1] - orderbook.bids[1][1]>> ELSE <<>>
        summary == [sum_bid |-> sum_amounts(orderbook.bids), sum_ask |-> sum_amounts(orderbook.asks), spread |-> spread]
        data == [bids |-> Slice(orderbook.bids, limit), asks |-> Slice(orderbook.asks, limit), timestamp |-> "time", datetime |-> "time", nonce |-> "nonce"]
    IN  IF exchange.exc = "ValueError"
        THEN Done(ErrM("unsupported exchange or symbol", md), exchange.trace)
        ELSE IF ext.op = "ok"
        THEN Done(Ok(data, md @@ [limit |-> limit, timestamp |-> "time"]) @@ [summary |-> summary], tr)
        ELSE IF ext.op = "ValueError"
        THEN Done(ErrM("unsupported exchange or symbol", md), tr)
        ELSE Done(ErrM("fetching the order book failed", md), tr)

\* no validation, no normalization: the raw arguments go to the exchange
get_trades_data(symbol, exchange_name, limit, ext) ==
    LET exchange == market_get_exchange(exchange_name)
        tr == call_exchange(exchange.trace, "fetch_trades", ext.op)
        failed == [status |-> "error", exchange |-> exchange_name, symbol |-> symbol, error |-> "str(e)", timestamp |-> "time"]
        summary == [latest_price |-> "price", latest_side |-> "side", sum_buy |-> "sum", sum_sell |-> "sum", sum_volume |-> "sum"]
    IN  IF exchange.exc = "ValueError"
        THEN Done(failed, exchange.trace)
        ELSE IF ext.op = "ok"
        THEN Done([status |-> "success", exchange |-> exchange_name, symbol |-> symbol, data |-> [trades |-> "trades", count |-> "count"], summary |-> summary, timestamp |-> "time"], tr)
        ELSE Done(failed, tr)

\* an empty dict
EmptyDict == <<>>

\* a Python float quotient num / den, kept as the pair
Quotient(num, den) == [raised |-> FALSE, num |-> num, den |-> den]

\* (change / baseline) * 100 if baseline != 0 else 0: the float quotient
\* comes first and is then multiplied, so the factor is kept beside the pair
percent_change(change, baseline) ==
    IF baseline # 0 THEN Quotient(change, baseline) @@ [times |-> 100] ELSE Quotient(0, 1) @@ [times |-> 100]

HighestOf(values) == CHOOSE v \in values : \A w \in values : w <= v

LowestOf(values) == CHOOSE v \in values : \A w \in values : v <= w

RECURSIVE sum_of(_)
sum_of(numbers) == IF numbers = <<>> THEN 0 ELSE Head(numbers) + sum_of(Tail(numbers))

\* the summary of get_kline_data; ext.candles are the rows of fetch_ohlcv
kline_summary(klines) ==
    IF klines = <<>> THEN EmptyDict
    ELSE
    LET latest == klines[Len(klines)]
        first == klines[1]
        price_change == latest.close - first.open
    IN  [latest_price |-> latest.close,
         price_change |-> price_change,
         price_change_percent |-> percent_change(price_change, first.open),
         highest_price |-> HighestOf({klines[i].high : i \in 1..Len(klines)}),
         lowest_price |-> LowestOf({klines[i].low : i \in 1..Len(klines)}),
         total_volume |-> sum_of([i \in 1..Len(klines) |-> klines[i].volume]),
         period_start |-> "time", period_end |-> "time"]

get_kline_data(symbol, timeframe, exchange_name, ext) ==
    IF Blank(symbol)
    THEN Done(Err("symbol must not be empty, give a pair such as BTC/USDT"), <<>>)
    ELSE IF Blank(timeframe)
    THEN Done(Err("timeframe must not be empty"), <<>>)
    ELSE IF Blank(exchange_name)
    THEN Done(Err("exchange name must not be empty"), <<>>)
    ELSE
    LET symbol_normalized == upper(strip(symbol))
        timeframe_normalized == lower(strip(timeframe))
        exchange_normalized == lower(strip(exchange_name))
        md == [exchange |-> exchange_normalized, symbol |-> symbol_normalized]
        exchange == market_get_exchange(exchange_normalized)
        tr == call_exchange(exchange.trace, "fetch_ohlcv", ext.op)
        klines == ext.candles
        summary == kline_summary(klines)
    IN  IF exchange.exc = "ValueError"
        THEN Done(ErrM("unsupported exchange or parameter", md), exchange.trace)
        ELSE IF ~ext.has
        THEN Done(ErrM("the exchange has no candles", md), exchange.trace)
        ELSE IF ext.op = "ValueError"
        THEN Done(ErrM("unsupported exchange or parameter", md), tr)
        ELSE IF ext.op # "ok"
        THEN Done(ErrM("fetching the candles failed", md), tr)
        ELSE IF klines # <<>> /\ summary.price_change_percent.raised
        THEN Done(ErrM("fetching the candles failed", md), tr)
        ELSE Done(Ok([klines |-> klines, count |-> Len(klines)], md @@ [timeframe |-> timeframe_normalized, timestamp |-> "time"]) @@ [summary |-> summary], tr)

\* [oi['open_interest'] for oi in processed_oi if oi['open_interest'] is not None];
\* an amount is NoAmount for None and <<n>> for the number n
NoAmount == <<>>

RECURSIVE oi_amounts_of(_)
oi_amounts_of(processed_oi) ==
    IF processed_oi = <<>> THEN <<>>
    ELSE (IF Head(processed_oi) # NoAmount THEN <<Head(processed_oi)[1]>> ELSE <<>>) \o oi_amounts_of(Tail(processed_oi))

\* the summary of get_open_interest_data: the change is taken between the
\* first and the last entry, filtered or not; None - number is a TypeError
oi_summary(processed_oi) ==
    LET oi_amounts == oi_amounts_of(processed_oi)
        current_oi == processed_oi[Len(processed_oi)]
        previous_oi == processed_oi[1]
        oi_change == current_oi[1] - previous_oi[1]
    IN  IF processed_oi = <<>> \/ Len(oi_amounts) < 2 THEN [raised |-> "none", value |-> EmptyDict]
        ELSE IF current_oi = NoAmount \/ previous_oi = NoAmount THEN [raised |-> "TypeError", value |-> EmptyDict]
        ELSE IF percent_change(oi_change, previous_oi[1]).raised THEN [raised |-> "ZeroDivisionError", value |-> EmptyDict]
        ELSE [raised |-> "none",
              value |-> [current_oi |-> current_oi[1], current_oi_value |-> "value", oi_change |-> oi_change,
                         oi_change_percentage |-> percent_change(oi_change, previous_oi[1]),
                         max_oi |-> HighestOf({oi_amounts[i] : i \in 1..Len(oi_amounts)}),
                         min_oi |-> LowestOf({oi_amounts[i] : i \in 1..Len(oi_amounts)}),
                         avg_oi |-> Quotient(sum_of(oi_amounts), Len(oi_amounts)),
                         period_start |-> "time", period_end |-> "time"]]

\* no check of the ':' of a contract symbol
get_open_interest_data(symbol, exchange_name, timeframe, ext) ==
    IF Blank(symbol)
    THEN Done(Err("contract symbol must not be empty, give a pair such as BTC/USDT:USDT"), <<>>)
    ELSE IF Blank(exchange_name)
    THEN Done(Err("exchange name must not be empty"), <<>>)
    ELSE IF Blank(timeframe)
    THEN Done(Err("timeframe must not be empty"), <<>>)
    ELSE
    LET symbol_normalized == upper(strip(symbol))
        exchange_normalized == lower(strip(exchange_name))
        timeframe_normalized == lower(strip(timeframe))
        md == [exchange |-> exchange_normalized, symbol |-> symbol_normalized]
        exchange == market_get_exchange(exchange_normalized)
        tr == call_exchange(exchange.trace, "fetch_open_interest_history", ext.op)
        processed_oi == ext.oi
        summary == oi_summary(processed_oi)
    IN  IF exchange.exc = "ValueError"
        THEN Done(ErrM("unsupported exchange or contract symbol", md), exchange.trace)
        ELSE IF ~ext.has
        THEN Done(ErrM("the exchange has no open interest history", md), exchange.trace)
        ELSE IF ext.op = "ValueError"
        THEN Done(ErrM("unsupported exchange or contract symbol", md), tr)
        ELSE IF ext.op # "ok"
        THEN Done(ErrM("fetching the open interest failed", md), tr)
        ELSE IF summary.raised # "none"
        THEN Done(ErrM("fetching the open interest failed", md), tr)
        ELSE Done(Ok([open_interest_history |-> processed_oi, count |-> Len(processed_oi)], md @@ [timeframe |-> timeframe_normalized, timestamp |-> "time"]) @@ [summary |-> summary.value], tr)

get_funding_rate(symbol, exchange_name, limit, ext) ==
    IF Blank(symbol)
    THEN Done(Err("contract symbol must not be empty, give a pair such as BTC/USDT:USDT"), <<>>)
    ELSE IF Blank(exchange_name)
    THEN Done(Err("exchange name must not be empty"), <<>>)
    ELSE IF limit <= 0
    THEN Done(Err("history size must be an integer greater than 0"), <<>>)
    ELSE IF limit > 100
    THEN Done(Err("history size must not exceed 100"), <<>>)
    ELSE
    LET symbol_normalized == upper(strip(symbol))
        exchange_normalized == lower(strip(exchange_name))
        md == [exchange |-> exchange_normalized, symbol |-> symbol_normalized]
        exchange == market_get_exchange(exchange_normalized)
        tr == call_exchange(exchange.trace, "fetch_funding_rate_history", ext.op)
    IN  IF exchange.exc = "ValueError"
        THEN Done(ErrM("unsupported exchange or contract symbol", md), exchange.trace)
        ELSE IF ~ext.has
        THEN Done(ErrM("the exchange has no funding rate history", md), exchange.trace)
        ELSE IF ext.op = "ok"
        THEN Done(Ok([funding_rates |-> "rates", count |-> "count"], md @@ [limit |-> limit, timestamp |-> "time"]) @@ [summary |-> "summary"], tr)
        ELSE IF ext.op = "ValueError"
        THEN Done(ErrM("unsupported exchange or contract symbol", md), tr)
        ELSE Done(ErrM("fetching the funding rate history failed", md), tr)

(***************************************************************************)
(* market_news_agent: keyword search, batch search, macro flashes.  An     *)
(* HTTP answer is [kind, list]: kind "ok" is a 200 answer whose JSON body  *)
(* carries `list`, and `count` when it has that key; the other kinds are   *)
(* an exception of the client, a status other than 200 ("status"), a body  *)
(* that is no JSON ("badjson"), a body whose success flag is false         *)
(* ("unsuccessful").                                                       *)
(***************************************************************************)
\* the digits str(n) and strftime write
DigitChars == <<"0","1","2","3","4","5","6","7","8","9">>

\* the decimal digits int() reads, the characters of category Nd: those of
\* value 0 first, those of value 9 last
DecimalDigits ==
    <<{"0", "U+0660", "U+06F0", "U+07C0", "U+0966", "U+09E6", "U+0A66", "U+0AE6", "U+0B66", "U+0BE6", "U+0C66", "U+0CE6",
      "U+0D66", "U+0DE6", "U+0E50", "U+0ED0", "U+0F20", "U+1040", "U+1090", "U+17E0", "U+1810", "U+1946", "U+19D0", "U+1A80",
      "U+1A90", "U+1B50", "U+1BB0", "U+1C40", "U+1C50", "U+A620", "U+A8D0", "U+A900", "U+A9D0", "U+A9F0", "U+AA50", "U+ABF0",
      "U+FF10", "U+104A0", "U+10D30", "U+11066", "U+110F0", "U+11136", "U+111D0", "U+112F0", "U+11450", "U+114D0", "U+11650", "U+116C0",
      "U+11730", "U+118E0", "U+11950", "U+11C50", "U+11D50", "U+11DA0", "U+16A60", "U+16AC0", "U+16B50", "U+1D7CE", "U+1D7D8", "U+1D7E2",
      "U+1D7EC", "U+1D7F6", "U+1E140", "U+1E2F0", "U+1E950", "U+1FBF0"},
     {"1", "U+0661", "U+06F1", "U+07C1", "U+0967", "U+09E7", "U+0A67", "U+0AE7", "U+0B67", "U+0BE7", "U+0C67", "U+0CE7",
      "U+0D67", "U+0DE7", "U+0E51", "U+0ED1", "U+0F21", "U+1041", "U+1091", "U+17E1", "U+1811", "U+1947", "U+19D1", "U+1A81",
      "U+1A91", "U+1B51", "U+1BB1", "U+1C41", "U+1C51", "U+A621", "U+A8D1", "U+A901", "U+A9D1", "U+A9F1", "U+AA51", "U+ABF1",
      "U+FF11", "U+104A1", "U+10D31", "U+11067", "U+110F1", "U+11137", "U+111D1", "U+112F1", "U+11451", "U+114D1", "U+11651", "U+116C1",
      "U+11731", "U+118E1", "U+11951", "U+11C51", "U+11D51", "U+11DA1", "U+16A61", "U+16AC1", "U+16B51", "U+1D7CF", "U+1D7D9", "U+1D7E3",
      "U+1D7ED", "U+1D7F7", "U+1E141", "U+1E2F1", "U+1E951", "U+1FBF1"},
     {"2", "U+0662", "U+06F2", "U+07C2", "U+0968", "U+09E8", "U+0A68", "U+0AE8", "U+0B68", "U+0BE8", "U+0C68", "U+0CE8",
      "U+0D68", "U+0DE8", "U+0E52", "U+0ED2", "U+0F22", "U+1042", "U+1092", "U+17E2", "U+1812", "U+1948", "U+19D2", "U+1A82",
      "U+1A92", "U+1B52", "U+1BB2", "U+1C42", "U+1C52", "U+A622", "U+A8D2", "U+A902", "U+A9D2", "U+A9F2", "U+AA52", "U+ABF2",
      "U+FF12", "U+104A2", "U+10D32", "U+11068", "U+110F2", "U+11138", "U+111D2", "U+112F2", "U+11452", "U+114D2", "U+11652", "U+116C2",
      "U+11732", "U+118E2", "U+11952", "U+11C52", "U+11D52", "U+11DA2", "U+16A62", "U+16AC2", "U+16B52", "U+1D7D0", "U+1D7DA", "U+1D7E4",
      "U+1D7EE", "U+1D7F8", "U+1E142", "U+1E2F2", "U+1E952", "U+1FBF2"},
     {"3", "U+0663", "U+06F3", "U+07C3", "U+0969", "U+09E9", "U+0A69", "U+0AE9", "U+0B69", "U+0BE9", "U+0C69", "U+0CE9",
      "U+0D69", "U+0DE9", "U+0E53", "U+0ED3", "U+0F23", "U+1043", "U+1093", "U+17E3", "U+1813", "U+1949", "U+19D3", "U+1A83",
      "U+1A93", "U+1B53", "U+1BB3", "U+1C43", "U+1C53", "U+A623", "U+A8D3", "U+A903", "U+A9D3", "U+A9F3", "U+AA53", "U+ABF3",
      "U+FF13", "U+104A3", "U+10D33", "U+11069", "U+110F3", "U+11139", "U+111D3", "U+112F3", "U+11453", "U+114D3", "U+11653", "U+116C3",
      "U+11733", "U+118E3", "U+11953", "U+11C53", "U+11D53", "U+11DA3", "U+16A63", "U+16AC3", "U+16B53", "U+1D7D1", "U+1D7DB", "U+1D7E5",
      "U+1D7EF", "U+1D7F9", "U+1E143", "U+1E2F3", "U+1E953", "U+1FBF3"},
     {"4", "U+0664", "U+06F4", "U+07C4", "U+096A", "U+09EA", "U+0A6A", "U+0AEA", "U+0B6A", "U+0BEA", "U+0C6A", "U+0CEA",
      "U+0D6A", "U+0DEA", "U+0E54", "U+0ED4", "U+0F24", "U+1044", "U+1094", "U+17E4", "U+1814", "U+194A", "U+19D4", "U+1A84",
      "U+1A94", "U+1B54", "U+1BB4", "U+1C44", "U+1C54", "U+A624", "U+A8D4", "U+A904", "U+A9D4", "U+A9F4", "U+AA54", "U+ABF4",
      "U+FF14", "U+104A4", "U+10D34", "U+1106A", "U+110F4", "U+1113A", "U+111D4", "U+112F4", "U+11454", "U+114D4", "U+11654", "U+116C4",
      "U+11734", "U+118E4", "U+11954", "U+11C54", "U+11D54", "U+11DA4", "U+16A64", "U+16AC4", "U+16B54", "U+1D7D2", "U+1D7DC", "U+1D7E6",
      "U+1D7F0", "U+1D7FA", "U+1E144", "U+1E2F4", "U+1E954", "U+1FBF4"},
     {"5", "U+0665", "U+06F5", "U+07C5", "U+096B", "U+09EB", "U+0A6B", "U+0AEB", "U+0B6B", "U+0BEB", "U+0C6B", "U+0CEB",
      "U+0D6B", "U+0DEB", "U+0E55", "U+0ED5", "U+0F25", "U+1045", "U+1095", "U+17E5", "U+1815", "U+194B", "U+19D5", "U+1A85",
      "U+1A95", "U+1B55", "U+1BB5", "U+1C45", "U+1C55", "U+A625", "U+A8D5", "U+A905", "U+A9D5", "U+A9F5", "U+AA55", "U+ABF5",
      "U+FF15", "U+104A5", "U+10D35", "U+1106B", "U+110F5", "U+1113B", "U+111D5", "U+112F5", "U+11455", "U+114D5", "U+11655", "U+116C5",
      "U+11735", "U+118E5", "U+11955", "U+11C55", "U+11D55", "U+11DA5", "U+16A65", "U+16AC5", "U+16B55", "U+1D7D3", "U+1D7DD", "U+1D7E7",
      "U+1D7F1", "U+1D7FB", "U+1E145", "U+1E2F5", "U+1E955", "U+1FBF5"},
     {"6", "U+0666", "U+06F6", "U+07C6", "U+096C", "U+09EC", "U+0A6C", "U+0AEC", "U+0B6C", "U+0BEC", "U+0C6C", "U+0CEC",
      "U+0D6C", "U+0DEC", "U+0E56", "U+0ED6", "U+0F26", "U+1046", "U+1096", "U+17E6", "U+1816", "U+194C", "U+19D6", "U+1A86",
      "U+1A96", "U+1B56", "U+1BB6", "U+1C46", "U+1C56", "U+A626", "U+A8D6", "U+A906", "U+A9D6", "U+A9F6", "U+AA56", "U+ABF6",
      "U+FF16", "U+104A6", "U+10D36", "U+1106C", "U+110F6", "U+1113C", "U+111D6", "U+112F6", "U+11456", "U+114D6", "U+11656", "U+116C6",
      "U+11736", "U+118E6", "U+11956", "U+11C56", "U+11D56", "U+11DA6", "U+16A66", "U+16AC6", "U+16B56", "U+1D7D4", "U+1D7DE", "U+1D7E8",
      "U+1D7F2", "U+1D7FC", "U+1E146", "U+1E2F6", "U+1E956", "U+1FBF6"},
     {"7", "U+0667", "U+06F7", "U+07C7", "U+096D", "U+09ED", "U+0A6D", "U+0AED", "U+0B6D", "U+0BED", "U+0C6D", "U+0CED",
      "U+0D6D", "U+0DED", "U+0E57", "U+0ED7", "U+0F27", "U+1047", "U+1097", "U+17E7", "U+1817", "U+194D", "U+19D7", "U+1A87",
      "U+1A97", "U+1B57", "U+1BB7", "U+1C47", "U+1C57", "U+A627", "U+A8D7", "U+A907", "U+A9D7", "U+A9F7", "U+AA57", "U+ABF7",
      "U+FF17", "U+104A7", "U+10D37", "U+1106D", "U+110F7", "U+1113D", "U+111D7", "U+112F7", "U+11457", "U+114D7", "U+11657", "U+116C7",
      "U+11737", "U+118E7", "U+11957", "U+11C57", "U+11D57", "U+11DA7", "U+16A67", "U+16AC7", "U+16B57", "U+1D7D5", "U+1D7DF", "U+1D7E9",
      "U+1D7F3", "U+1D7FD", "U+1E147", "U+1E2F7", "U+1E957", "U+1FBF7"},
     {"8", "U+0668", "U+06F8", "U+07C8", "U+096E", "U+09EE", "U+0A6E", "U+0AEE", "U+0B6E", "U+0BEE", "U+0C6E", "U+0CEE",
      "U+0D6E", "U+0DEE", "U+0E58", "U+0ED8", "U+0F28", "U+1048", "U+1098", "U+17E8", "U+1818", "U+194E", "U+19D8", "U+1A88",
      "U+1A98", "U+1B58", "U+1BB8", "U+1C48", "U+1C58", "U+A628", "U+A8D8", "U+A908", "U+A9D8", "U+A9F8", "U+AA58", "U+ABF8",
      "U+FF18", "U+104A8", "U+10D38", "U+1106E", "U+110F8", "U+1113E", "U+111D8", "U+112F8", "U+11458", "U+114D8", "U+11658", "U+116C8",
      "U+11738", "U+118E8", "U+11958", "U+11C58", "U+11D58", "U+11DA8", "U+16A68", "U+16AC8", "U+16B58", "U+1D7D6", "U+1D7E0", "U+1D7EA",
      "U+1D7F4", "U+1D7FE", "U+1E148", "U+1E2F8", "U+1E958", "U+1FBF8"},
     {"9", "U+0669", "U+06F9", "U+07C9", "U+096F", "U+09EF", "U+0A6F", "U+0AEF", "U+0B6F", "U+0BEF", "U+0C6F", "U+0CEF",
      "U+0D6F", "U+0DEF", "U+0E59", "U+0ED9", "U+0F29", "U+1049", "U+1099", "U+17E9", "U+1819", "U+194F", "U+19D9", "U+1A89",
      "U+1A99", "U+1B59", "U+1BB9", "U+1C49", "U+1C59", "U+A629", "U+A8D9", "U+A909", "U+A9D9", "U+A9F9", "U+AA59", "U+ABF9",
      "U+FF19", "U+104A9", "U+10D39", "U+1106F", "U+110F9", "U+1113F", "U+111D9", "U+112F9", "U+11459", "U+114D9", "U+11659", "U+116C9",
      "U+11739", "U+118E9", "U+11959", "U+11C59", "U+11D59", "U+11DA9", "U+16A69", "U+16AC9", "U+16B59", "U+1D7D7", "U+1D7E1", "U+1D7EB",
      "U+1D7F5", "U+1D7FF", "U+1E149", "U+1E2F9", "U+1E959", "U+1FBF9"}>>

Digits == UNION {DecimalDigits[v] : v \in 1..10}

\* the value of a decimal digit
digit_value(c) == (CHOOSE v \in 1..10 : c \in DecimalDigits[v]) - 1

\* sys.int_info.default_max_str_digits: int() raises ValueError for a text of
\* more decimal digits
INT_MAX_STR_DIGITS == 4300

\* int(s) answers for decimal digits of any script, single underscores
\* between them, one sign in front and white space around (the characters
\* str.strip() removes but the four separators U+001C to U+001F), at most
\* INT_MAX_STR_DIGITS digits in all (the sign, the underscores and the white
\* space are not counted, leading zeros are), and raises ValueError otherwise
int_parses(s) ==
    LET kept == {i \in 1..Len(s) : ~(IsSpace(s[i]) /\ s[i] \notin {"", "", "", ""})}
        first == CHOOSE i \in kept : \A j \in kept : i <= j
        last == CHOOSE i \in kept : \A j \in kept : j <= i
        stripped == IF kept = {} THEN <<>> ELSE SubSeq(s, first, last)
        signed == stripped # <<>> /\ stripped[1] \in {"+", "-"}
        digits == IF signed THEN Tail(stripped) ELSE stripped
    IN  /\ digits # <<>>
        /\ digits[1] \in Digits
        /\ digits[Len(digits)] \in Digits
        /\ \A i \in 1..Len(digits) : digits[i] \in Digits \cup {"_"}
        /\ \A i \in 1..(Len(digits) - 1) : ~(digits[i] = "_" /\ digits[i + 1] = "_")
        /\ Cardinality({i \in 1..Len(digits) : digits[i] \in Digits}) <= INT_MAX_STR_DIGITS

\* the number the digits of chars spell, as whole days and the seconds left:
\* ten times the number before the last digit, and that digit; the characters
\* that are no digits (the sign, the underscores, the white space) are passed
\* over, and the days stop counting at 10000000, beyond every date datetime
\* takes
RECURSIVE magnitude_of(_)
magnitude_of(chars) ==
    LET times_ten_plus[n \in [days : Nat, seconds : 0..86399], digit \in 0..9] ==
            [days |-> IF 10 * n.days + (10 * n.seconds + digit) \div 86400 > 10000000 THEN 10000000 ELSE 10 * n.days + (10 * n.seconds + digit) \div 86400,
             seconds |-> (10 * n.seconds + digit) % 86400]
    IN  IF chars = <<>> THEN [days |-> 0, seconds |-> 0]
        ELSE IF chars[Len(chars)] \in Digits
        THEN times_ten_plus[magnitude_of(SubSeq(chars, 1, Len(chars) - 1)), digit_value(chars[Len(chars)])]
        ELSE magnitude_of(SubSeq(chars, 1, Len(chars) - 1))

\* int(s) for a string int() takes: the sign and the magnitude
int_of(s) == [negative |-> Contains("-", s), days |-> magnitude_of(s).days, seconds |-> magnitude_of(s).seconds]

\* datetime.fromtimestamp(t) raises for a time before 0001-01-02 00:00:00 or
\* after 9999-12-31 23:59:59 (ValueError, OverflowError or OSError), that is
\* below -62135510400 = -719161 * 86400 or above 253402300799 =
\* 2932896 * 86400 + 86399; the local time of the process is taken to be UTC
fromtimestamp_raises(t) ==
    IF t.negative
    THEN t.days > 719161 \/ (t.days = 719161 /\ t.seconds > 0)
    ELSE t.days > 2932896

\* the date and time so many days and seconds of the day after 1970-01-01
\* 00:00:00, the days negative before it
civil ==
    [days \in Int, seconds \in 0..86399 |->
    LET z == days + 719468
        era == z \div 146097
        doe == z % 146097
        yoe == (doe - doe \div 1460 + doe \div 36524 - doe \div 146096) \div 365
        doy == doe - (365 * yoe + yoe \div 4 - yoe \div 100)
        mp == (5 * doy + 2) \div 153
        month == IF mp < 10 THEN mp + 3 ELSE mp - 9
    IN  [year |-> yoe + era * 400 + (IF month <= 2 THEN 1 ELSE 0), month |-> month, day |-> doy - (153 * mp + 2) \div 5 + 1,
         hour |-> seconds \div 3600, minute |-> (seconds % 3600) \div 60, second |-> seconds % 60]]

\* datetime.fromtimestamp(t) for a time it takes, the days and seconds
\* counted backwards when t is negative
fromtimestamp(t) ==
    IF t.negative /\ t.seconds # 0
    THEN civil[0 - t.days - 1, 86400 - t.seconds]
    ELSE civil[IF t.negative THEN 0 - t.days ELSE t.days, t.seconds]

\* str(n) for n >= 0
RECURSIVE decimal(_)
decimal(n) == IF n < 10 THEN <<DigitChars[n + 1]>> ELSE decimal(n \div 10) \o <<DigitChars[(n % 10) + 1]>>

\* date.strftime("%Y-%m-%d %H:%M:%S"): the year as many digits as it has, the
\* other fields two digits each
strftime ==
    [date \in [year : Nat, month : 1..12, day : 1..31, hour : 0..23, minute : 0..59, second : 0..59] |->
    LET two(n) == <<DigitChars[(n \div 10) + 1], DigitChars[(n % 10) + 1]>>
    IN  decimal(date.year) \o <<"-">> \o two(date.month) \o <<"-">> \o two(date.day) \o <<" ">>
            \o two(date.hour) \o <<":">> \o two(date.minute) \o <<":">> \o two(date.second)]

\* no item's time makes int() or datetime.fromtimestamp() raise
RECURSIVE all_times_parse(_)
all_times_parse(items) ==
    \/ items = <<>>
    \/ /\ int_parses(Head(items).time)
       /\ ~fromtimestamp_raises(int_of(Head(items).time))
       /\ all_times_parse(Tail(items))

RECURSIVE clean_news(_)
clean_news(items) ==
    IF items = <<>> THEN <<>>
    ELSE <<[title |-> Head(items).title, content |-> "content", time |-> strftime[fromtimestamp(int_of(Head(items).time))], source |-> "source"]>> \o clean_news(Tail(items))

\* search_market_news once the request is made: what it returns for the
\* answer of the news server, clean_data being the items of a good answer
search_answered(keyword_normalized, page_size, answer, clean_data) ==
    IF answer.kind = "Timeout"
    THEN Err("the request timed out after 30 seconds")
    ELSE IF answer.kind = "ConnectionError"
    THEN Err("cannot connect to the news server")
    ELSE IF answer.kind = "Exception"
    THEN Err("unknown error while searching the news")
    ELSE IF answer.kind = "status"
    THEN Err("the request failed with a status code")
    ELSE IF answer.kind = "badjson"
    THEN Err("parsing the answer failed")
    ELSE IF answer.kind = "unsuccessful"
    THEN Err("the server answered an error")
    ELSE IF ~all_times_parse(answer.list)
    THEN Err("unknown error while searching the news")
    ELSE Ok([keyword |-> keyword_normalized, news |-> clean_data, page_info |-> [current_page |-> 1, page_size |-> page_size, total_count |-> IF "count" \in DOMAIN answer THEN answer.count ELSE Len(clean_data), returned_count |-> Len(clean_data)]],
            [timestamp |-> "time", api_url |-> "newsflashByScore", search_keyword |-> keyword_normalized, requested_page_size |-> page_size, actual_returned_count |-> Len(clean_data), api_response_status |-> 200])

search_market_news(keyword, page_size, answer) ==
    IF Blank(keyword)
    THEN Done(Err("keyword must not be empty"), <<>>)
    ELSE IF page_size < 1 \/ page_size > 100
    THEN Done(Err("page size must be an integer from 1 to 100"), <<>>)
    ELSE Done(search_answered(strip(keyword), page_size, answer, clean_news(answer.list)), <<"post_search">>)

\* valid_keywords of batch_search_market_news
RECURSIVE valid_keywords_of(_)
valid_keywords_of(keywords) ==
    IF keywords = <<>> THEN <<>>
    ELSE IF ~Blank(Head(keywords)) THEN <<strip(Head(keywords))>> \o valid_keywords_of(Tail(keywords))
    ELSE valid_keywords_of(Tail(keywords))

\* one turn of the loop of batch_search_market_news: the result of the
\* keyword's search is put before the results of the later keywords, and the
\* external calls of the turn before theirs
batch_turn(keyword, called, pause, rest) ==
    [results |-> <<IF called.outcome.value.status = "success"
                   THEN [keyword |-> keyword, status |-> "success", news |-> called.outcome.value.data.news, news_count |-> Len(called.outcome.value.data.news), search_metadata |-> called.outcome.value.metadata]
                   ELSE [keyword |-> keyword, status |-> "error", news |-> <<>>, news_count |-> 0, error_message |-> called.outcome.value.error_message]>> \o rest.results,
     trace |-> called.trace \o pause \o rest.trace]

\* the loop of batch_search_market_news from keyword i on: the per-keyword
\* results and the external calls, a pause of 0.5 s after every keyword but
\* the last
RECURSIVE batch_loop(_, _, _, _)
batch_loop(valid_keywords, i, page_size, answers) ==
    IF i > Len(valid_keywords) THEN [results |-> <<>>, trace |-> <<>>]
    ELSE batch_turn(valid_keywords[i], search_market_news(valid_keywords[i], page_size, answers[i]), IF i < Len(valid_keywords) THEN <<"sleep">> ELSE <<>>,
                    batch_loop(valid_keywords, i + 1, page_size, answers))

\* a counter that takes every keyword for a success
RECURSIVE count_success_of_all(_)
count_success_of_all(results) ==
    IF results = <<>> THEN 0
    ELSE 1 + count_success_of_all(Tail(results))

RECURSIVE count_success(_)
count_success(results) ==
    IF results = <<>> THEN 0
    ELSE (IF Head(results).status = "success" THEN 1 ELSE 0) + count_success(Tail(results))

\* failed_searches: counted in the else branch and in the except branch
RECURSIVE count_failed(_)
count_failed(results) ==
    IF results = <<>> THEN 0
    ELSE (IF Head(results).status = "success" THEN 0 ELSE 1) + count_failed(Tail(results))

RECURSIVE total_news(_)
total_news(results) == IF results = <<>> THEN 0 ELSE Head(results).news_count + total_news(Tail(results))

\* batch_search_market_news after the loop: the overall status, the summary
\* and the metadata
batch_searched(valid_keywords, page_size, batch_results, successful_searches, failed_searches) ==
    [status |-> IF successful_searches = Len(valid_keywords) THEN "success" ELSE IF successful_searches > 0 THEN "partial_success" ELSE "error",
     data |-> [results |-> batch_results,
               summary |-> [total_keywords |-> Len(valid_keywords), successful_searches |-> successful_searches, failed_searches |-> failed_searches, total_news_found |-> total_news(batch_results),
                            success_rate |-> float_round(float_times(round_ratio(big(successful_searches), big(Len(valid_keywords)), 0), 100), 2)]],
     metadata |-> [timestamp |-> "time", requested_keywords |-> valid_keywords, page_size_per_keyword |-> page_size, batch_processing_time |-> "time", api_calls_made |-> Len(valid_keywords)]]
        @@ (IF successful_searches = 0 THEN [error_message |-> "every keyword search failed"] ELSE <<>>)

\* the loop run on the valid keywords, and what is returned after it
batch_looped(valid_keywords, page_size, loop) ==
    Done(batch_searched(valid_keywords, page_size, loop.results, count_success(loop.results), count_failed(loop.results)), loop.trace)

batch_search_market_news(keywords, page_size_per_keyword, answers) ==
    IF keywords = <<>>
    THEN Done(Err("the keyword list must be a non-empty list"), <<>>)
    ELSE IF valid_keywords_of(keywords) = <<>>
    THEN Done(Err("no valid keyword"), <<>>)
    ELSE batch_looped(valid_keywords_of(keywords), IF page_size_per_keyword < 1 \/ page_size_per_keyword > 100 THEN 10 ELSE page_size_per_keyword,
                      batch_loop(valid_keywords_of(keywords), 1, IF page_size_per_keyword < 1 \/ page_size_per_keyword > 100 THEN 10 ELSE page_size_per_keyword, answers))

RECURSIVE clean_macro(_)
clean_macro(items) ==
    IF items = <<>> THEN <<>>
    ELSE <<[time |-> Head(items).time, content |-> "content"]>> \o clean_macro(Tail(items))

\* item.get("data", "").get("content", "") raises AttributeError without "data"
RECURSIVE all_have_data(_)
all_have_data(items) == items = <<>> \/ (Head(items).has_data /\ all_have_data(Tail(items)))

get_macro_data(limit, answer) ==
    LET limit_used == IF limit < 1 \/ limit > 100 THEN 50 ELSE limit
        tr == <<"get_flash_list">>
        data_list == answer.list
        limited_data == IF Len(data_list) > limit_used THEN Slice(data_list, limit_used) ELSE data_list
        clean_data == clean_macro(limited_data)
        macro_data == [macro_data |-> clean_data, count_info |-> [total_available |-> Len(data_list), requested_limit |-> limit_used, actual_returned |-> Len(clean_data)]]
        metadata == [timestamp |-> "time", data_source |-> "jin10", api_url |-> "get_flash_list", max_time_used |-> "time", requested_limit |-> limit_used, total_available_count |-> Len(data_list), returned_count |-> Len(clean_data), api_response_status |-> 200]
    IN  IF answer.kind = "Timeout"
        THEN Done(Err("the request timed out after 30 seconds"), tr)
        ELSE IF answer.kind = "ConnectionError"
        THEN Done(Err("cannot connect to the macro data server"), tr)
        ELSE IF answer.kind = "Exception"
        THEN Done(Err("unknown error while fetching the macro data"), tr)
        ELSE IF answer.kind = "status"
        THEN Done(Err("the request failed with a status code"), tr)
        ELSE IF answer.kind = "badjson"
        THEN Done(Err("parsing the answer failed"), tr)
        ELSE IF ~all_have_data(limited_data)
        THEN Done(Err("unknown error while fetching the macro data"), tr)
        ELSE Done(Ok(macro_data, metadata), tr)

(***************************************************************************)
(* code_execution_agent.  The user code is a record: its source text,      *)
(* what its top-level statements do ("ok" or the exception they raise),    *)
(* what its main() does when it defines one ("absent" otherwise), the      *)
(* value it binds to `result`, and whether it calls main() itself.  The    *)
(* trace lists "exec", each run of "main", and "exec_returns".             *)
(***************************************************************************)
\* the exceptions that derive from Exception; SystemExit and
\* KeyboardInterrupt do not
ExceptionClasses == {"SyntaxError", "NameError", "ImportError", "Exception", "ValueError", "TypeError", "AttributeError", "KeyError"}

\* exec(code_normalized, execution_namespace, execution_namespace): the
\* top-level statements run, and since the namespace sets __name__ to
\* "__main__" a program that ends with the usual guarded call of main()
\* runs main inside exec
exec_code(code) ==
    IF code.exec # "ok" THEN [exc |-> code.exec, trace |-> <<"exec">>]
    ELSE IF ~code.calls_main THEN [exc |-> "none", trace |-> <<"exec", "exec_returns">>]
    ELSE IF code.main \in {"none", "value"} THEN [exc |-> "none", trace |-> <<"exec", "main", "exec_returns">>]
    ELSE [exc |-> code.main, trace |-> <<"exec", "main">>]

code_execution_python(code) ==
    LET code_normalized == strip(code.text)
        md == [timestamp |-> "time", code_length |-> Len(code_normalized)]
        top == exec_code(code)
        main_stderr == IF code.main \in ExceptionClasses THEN "main() failed" ELSE ""
        result_value == IF code.main = "value" THEN <<"value">> ELSE None
    IN  IF code.text = <<>>
        THEN Done(ErrM("code must be a non-empty string", [timestamp |-> "time", code_length |-> 0]), <<>>)
        ELSE IF code_normalized = <<>>
        THEN Done(ErrM("code must not be blank", [timestamp |-> "time", code_length |-> 0]), <<>>)
        ELSE IF top.exc = "SyntaxError"
        THEN Done(ErrM("syntax error in the code", md @@ [error_type |-> "SyntaxError"]), top.trace)
        ELSE IF top.exc = "NameError"
        THEN Done(ErrM("unknown variable or function name", md @@ [error_type |-> "NameError"]), top.trace)
        ELSE IF top.exc = "ImportError"
        THEN Done(ErrM("importing a library failed", md @@ [error_type |-> "ImportError"]), top.trace)
        ELSE IF top.exc \in ExceptionClasses
        THEN Done(ErrM("running the code failed", md @@ [error_type |-> top.exc]), top.trace)
        ELSE IF top.exc # "none"
        THEN Raised(top.exc, top.trace)
        ELSE IF code.main = "absent"
        THEN Done(Ok([stdout |-> "stdout", stderr |-> "", result |-> result_value], md @@ [execution_duration |-> "seconds"]), top.trace)
        ELSE IF code.main \in {"none", "value"} \cup ExceptionClasses
        THEN Done(Ok([stdout |-> "stdout", stderr |-> main_stderr, result |-> result_value], md @@ [execution_duration |-> "seconds"]), top.trace \o <<"main">>)
        ELSE Raised(code.main, top.trace \o <<"main">>)

(***************************************************************************)
(* google_search_agent and web_scrapy_agent.  The browser worker runs in   *)
(* a thread; `worker` says how it ends: "success" with the result          *)
(* containers of the page, "error" (it caught a page error), "exception"   *)
(* (it raised), "timeout" (no result within 60 s, or it raised the builtin *)
(* TimeoutError), "not_installed" (patchright is missing: none is started).*)
(***************************************************************************)
RECURSIVE url_exists(_, _)
url_exists(search_results, url) ==
    search_results # <<>> /\ (Head(search_results).url = url \/ url_exists(Tail(search_results), url))

\* a container loop that does not look for the url among the results
RECURSIVE collect_results_without_url_check(_, _, _)
collect_results_without_url_check(containers, search_results, num_results) ==
    IF containers = <<>> THEN search_results
    ELSE
    LET c == Head(containers)
        added == IF ~c.raises /\ c.title # <<>> /\ c.url # <<>> THEN Append(search_results, [title |-> c.title, url |-> c.url, position |-> Len(search_results) + 1]) ELSE search_results
    IN  IF Len(added) >= num_results THEN added ELSE collect_results_without_url_check(Tail(containers), added, num_results)

\* the container loop of _playwright_google_search_internal; a container
\* whose inspection raises is passed over
RECURSIVE collect_results(_, _, _)
collect_results(containers, search_results, num_results) ==
    IF containers = <<>> THEN search_results
    ELSE
    LET c == Head(containers)
        added == IF ~c.raises /\ c.title # <<>> /\ c.url # <<>> /\ ~url_exists(search_results, c.url) THEN Append(search_results, [title |-> c.title, url |-> c.url, position |-> Len(search_results) + 1]) ELSE search_results
    IN  IF Len(added) >= num_results THEN added ELSE collect_results(Tail(containers), added, num_results)

\* result["results"] and result["total_results"] of
\* _playwright_google_search_internal
parse_result_containers(containers, num_results) ==
    LET search_results == collect_results(containers, <<>>, num_results)
    IN  [results |-> search_results, total_results |-> Len(search_results)]

google_search_playwright(query, num_results, lang, worker) ==
    IF Blank(query)
    THEN Done(Err("query must not be empty"), <<>>)
    ELSE IF num_results < 1 \/ num_results > 100
    THEN Done(Err("number of results must be an integer from 1 to 100"), <<>>)
    ELSE IF Blank(lang)
    THEN Done(Err("language code must not be empty"), <<>>)
    ELSE
    LET query_normalized == strip(query)
        lang_normalized == strip(lang)
        tr == <<"browser_search">>
        results == collect_results(worker.containers, <<>>, num_results)
        search_result == [status |-> "success", query |-> query_normalized, results |-> results, total_results |-> Len(results), search_url |-> "url", search_stats |-> "stats", timestamp |-> "time"]
    IN  IF worker.kind = "not_installed"
        THEN Done(Err("Playwright is not installed"), <<>>)
        ELSE IF worker.kind = "success"
        THEN Done(Ok(search_result, [timestamp |-> "time", processed_query |-> query_normalized, search_language |-> lang_normalized, requested_results |-> num_results]), tr)
        ELSE IF worker.kind = "error"
        THEN Done(Err("the search failed on the page"), tr)
        ELSE IF worker.kind = "timeout"
        THEN Done(Err("the search timed out after 60 seconds"), tr)
        ELSE Done(Err("the worker thread failed"), tr)

\* the language quick_google_search and search_and_extract_content search in
ZH_CN == <<"z", "h", "-", "C", "N">>

\* quick_google_search: its own check of the query, then
\* google_search_playwright(query.strip(), 10, "zh-CN"), whose result it
\* hands back, a successful one with two more entries in its metadata
quick_google_search(query, worker) ==
    LET quick(result) ==
            IF result.outcome.value.status = "success"
            THEN [result EXCEPT !.outcome.value.metadata = @ @@ [search_type |-> "quick_search", default_params_used |-> TRUE]]
            ELSE result
    IN  IF Blank(query)
        THEN Done(Err("search keyword must not be empty"), <<>>)
        ELSE quick(google_search_playwright(strip(query), 10, ZH_CN, worker))

\* an extraction loop that gives up at the first page that fails
RECURSIVE enhance_results_until_failure(_, _, _)
enhance_results_until_failure(results, fetches, i) ==
    IF i > Len(results) \/ fetches[i] # "ok" THEN <<>>
    ELSE <<results[i] @@ [content |-> "content", page_title |-> "title", content_available |-> TRUE]>> \o enhance_results_until_failure(results, fetches, i + 1)

\* the extraction loop of search_and_extract_content: one GET per result,
\* fetches[i] being how the fetch and the parsing of the i-th page went
RECURSIVE enhance_results(_, _, _)
enhance_results(results, fetches, i) ==
    IF i > Len(results) THEN <<>>
    ELSE
    LET enhanced == IF fetches[i] = "ok" THEN results[i] @@ [content |-> "content", page_title |-> "title", content_available |-> TRUE] ELSE results[i] @@ [content |-> "", content_available |-> FALSE, content_error |-> "extraction failed"]
    IN  <<enhanced>> \o enhance_results(results, fetches, i + 1)

RECURSIVE count_available(_)
count_available(results) ==
    IF results = <<>> THEN 0
    ELSE (IF Head(results).content_available THEN 1 ELSE 0) + count_available(Tail(results))

\* `scraper` is how the import of the scraper module went: "ok",
\* "ImportError" or another "Exception", which the outer except takes
search_and_extract_content(query, num_results, worker, fetches, scraper) ==
    IF Blank(query)
    THEN Done(Err("query must not be empty"), <<>>)
    ELSE IF num_results < 1 \/ num_results > 10
    THEN Done(Err("number of results must be an integer from 1 to 10"), <<>>)
    ELSE
    LET query_normalized == strip(query)
        searched == google_search_playwright(query_normalized, num_results, ZH_CN, worker)
        search_result == searched.outcome.value
        enhanced_results == enhance_results(search_result.data.results, fetches, 1)
        search_data == [search_result.data EXCEPT !.results = enhanced_results] @@ [content_extracted |-> TRUE]
        gets == [i \in 1..Len(enhanced_results) |-> "get_page"]
    IN  IF search_result.status # "success"
        THEN Done(search_result, searched.trace)
        ELSE IF scraper = "ImportError"
        THEN Done(Err("the scraper module is not available"), searched.trace)
        ELSE IF scraper = "Exception"
        THEN Done(Err("search and content extraction failed"), searched.trace)
        ELSE Done(Ok(search_data, [timestamp |-> "time", processed_query |-> query_normalized, content_extraction_performed |-> TRUE, results_with_content |-> count_available(enhanced_results)]), searched.trace \o gets)

HTTP_PREFIX == <<"h","t","t","p",":","/","/">>

HTTPS_PREFIX == <<"h","t","t","p","s",":","/","/">>

\* a normalizer that puts https:// before every url
normalize_url_always_prefixing(url) == HTTPS_PREFIX \o strip(url)

\* url.strip(), with https:// put before it unless it starts with http:// or
\* https://
normalize_url(url) ==
    LET url_normalized == strip(url)
    IN  IF ~(startswith(url_normalized, HTTP_PREFIX) \/ startswith(url_normalized, HTTPS_PREFIX))
        THEN HTTPS_PREFIX \o url_normalized
        ELSE url_normalized

\* symbol.strip().upper()
normalize_symbol(symbol) == upper(strip(symbol))

\* exchange_name.strip().lower(), asset.strip().lower()
normalize_name(name) == lower(strip(name))

\* the position of the first c in s, 0 when s has none
first_index(c, s) == IF Contains(c, s) THEN CHOOSE k \in 1..Len(s) : s[k] = c /\ \A j \in 1..(k - 1) : s[j] # c ELSE 0

\* s.partition(c)[0] and s.partition(c)[2]
before_first(c, s) == IF Contains(c, s) THEN SubSeq(s, 1, first_index(c, s) - 1) ELSE s

after_first(c, s) == IF Contains(c, s) THEN SubSeq(s, first_index(c, s) + 1, Len(s)) ELSE <<>>

\* s.split(c)
RECURSIVE split(_, _)
split(s, c) == IF Contains(c, s) THEN <<before_first(c, s)>> \o split(after_first(c, s), c) ELSE <<s>>

HexDigits == {"0","1","2","3","4","5","6","7","8","9","a","b","c","d","e","f","A","B","C","D","E","F"}

AsciiDigits == {DigitChars[i] : i \in 1..10}

\* IPv4Address._parse_octet answers: one to three ASCII digits, no zero in
\* front of another digit, at most 255
parse_octet_answers(octet_str) ==
    /\ octet_str # <<>>
    /\ \A i \in 1..Len(octet_str) : octet_str[i] \in AsciiDigits
    /\ Len(octet_str) <= 3
    /\ octet_str = <<"0">> \/ octet_str[1] # "0"
    /\ magnitude_of(octet_str).seconds <= 255

\* IPv4Address(s) answers: four octets between dots
ipv4_parses(ip_str) ==
    /\ Len(split(ip_str, ".")) = 4
    /\ \A i \in 1..4 : parse_octet_answers(split(ip_str, ".")[i])

\* IPv6Address._parse_hextet answers: one to four hex digits
parse_hextet_answers(hextet_str) ==
    /\ \A i \in 1..Len(hextet_str) : hextet_str[i] \in HexDigits
    /\ Len(hextet_str) <= 4
    /\ hextet_str # <<>>

\* '%x' % n
RECURSIVE hex(_)
hex(n) ==
    LET HexChars == <<"0","1","2","3","4","5","6","7","8","9","a","b","c","d","e","f">>
    IN  IF n < 16 THEN <<HexChars[n + 1]>> ELSE hex(n \div 16) \o <<HexChars[(n % 16) + 1]>>

\* the parts of an address between its colons, a dotted address at the end
\* turned into the two groups of hex digits of its four octets
hextet_parts(parts) ==
    LET octet(i) == magnitude_of(split(parts[Len(parts)], ".")[i]).seconds
    IN  IF Contains(".", parts[Len(parts)])
        THEN SubSeq(parts, 1, Len(parts) - 1) \o <<hex(256 * octet(1) + octet(2)), hex(256 * octet(3) + octet(4))>>
        ELSE parts

\* the checks of IPv6Address._ip_int_from_string on the parts: at most nine
\* of them, one :: at most, an empty part at either end only next to the ::,
\* at most seven parts beside a ::, eight without, hex digits in every part
\* that is read
hextets_parse(parts) ==
    LET skips == {i \in 2..(Len(parts) - 1) : parts[i] = <<>>}
        skip_index == CHOOSE i \in skips : TRUE
        parts_hi == IF parts[1] = <<>> THEN skip_index - 2 ELSE skip_index - 1
        parts_lo == IF parts[Len(parts)] = <<>> THEN Len(parts) - skip_index - 1 ELSE Len(parts) - skip_index
    IN  /\ Len(parts) <= 9
        /\ Cardinality(skips) <= 1
        /\ IF skips # {}
           THEN /\ parts[1] = <<>> => parts_hi = 0
                /\ parts[Len(parts)] = <<>> => parts_lo = 0
                /\ 8 - (parts_hi + parts_lo) >= 1
                /\ \A i \in 1..parts_hi : parse_hextet_answers(parts[i])
                /\ \A i \in (Len(parts) - parts_lo + 1)..Len(parts) : parse_hextet_answers(parts[i])
           ELSE /\ Len(parts) = 8
                /\ \A i \in 1..8 : parse_hextet_answers(parts[i])

\* IPv6Address(s) answers: a scope id after a % is not empty and holds no
\* other %, the address before it has three parts at least, and a dotted
\* address at its end is one IPv4Address takes
ipv6_parses(ip_str) ==
    LET addr_str == before_first("%", ip_str)
        scope_id == after_first("%", ip_str)
        parts == split(addr_str, ":")
    IN  /\ ~Contains("/", ip_str)
        /\ Contains("%", ip_str) => (scope_id # <<>> /\ ~Contains("%", scope_id))
        /\ addr_str # <<>>
        /\ Len(parts) >= 3
        /\ Contains(".", parts[Len(parts)]) => ipv4_parses(parts[Len(parts)])
        /\ hextets_parse(hextet_parts(parts))

\* _check_bracketed_host answers: an IPvFuture address is a v, hex digits, a
\* dot and something after it; any other host is an IPv6 address (an IPv4
\* address has no colon and is none)
check_bracketed_host_answers(hostname) ==
    IF startswith(hostname, <<"v">>)
    THEN LET version == before_first(".", Tail(hostname))
         IN  /\ Contains(".", hostname)
             /\ version # <<>>
             /\ \A i \in 1..Len(version) : version[i] \in HexDigits
             /\ after_first(".", hostname) # <<>>
    ELSE ipv6_parses(hostname)

\* the characters above U+007F whose NFKC form holds one of / ? # @ :
NFKCDelimiters ==
    {"U+2047", "U+2048", "U+2049", "U+2100", "U+2101", "U+2105", "U+2106", "U+2A74", "U+FE13", "U+FE16", "U+FE55", "U+FE56",
     "U+FE5F", "U+FE6B", "U+FF03", "U+FF0F", "U+FF1A", "U+FF1F", "U+FF20"}

\* urlparse(url).netloc for a url that starts with http:// or https://: tab,
\* carriage return and line feed are dropped from the url, and the netloc runs
\* up to the first / ? or #
RECURSIVE upto_delimiter(_)
upto_delimiter(s) ==
    IF s = <<>> \/ Head(s) \in {"/", "?", "#"} THEN <<>> ELSE <<Head(s)>> \o upto_delimiter(Tail(s))

netloc(url) ==
    LET kept(c) == c \notin {"\t", "\r", "\n"}
        cleaned == SelectSeq(url, kept)
    IN  IF startswith(cleaned, HTTPS_PREFIX) THEN upto_delimiter(SubSeq(cleaned, Len(HTTPS_PREFIX) + 1, Len(cleaned)))
        ELSE upto_delimiter(SubSeq(cleaned, Len(HTTP_PREFIX) + 1, Len(cleaned)))

\* urlparse(url) raises ValueError: one bracket of the netloc without the
\* other, a host between the brackets that is no address, or a character of
\* the netloc that NFKC turns into a delimiter
urlparse_raises(url) ==
    \/ Contains("[", netloc(url)) # Contains("]", netloc(url))
    \/ /\ Contains("[", netloc(url))
       /\ ~check_bracketed_host_answers(before_first("]", after_first("[", netloc(url))))
    \/ \E i \in 1..Len(netloc(url)) : netloc(url)[i] \in NFKCDelimiters

web_scrapy_playwright(url, worker) ==
    IF Blank(url)
    THEN Done(Err("URL must not be empty"), <<>>)
    ELSE
    LET url_normalized == normalize_url(url)
        tr == <<"browser_scrape">>
        page_data == [url |-> url_normalized, content |-> "content", title |-> "title", links |-> worker.links]
        metadata == [timestamp |-> "time", links_count |-> Len(worker.links), content_length |-> "length", status_code |-> IF worker.has_response THEN worker.status ELSE None, url |-> worker.page_url, title |-> "title", viewport |-> "viewport"]
        parsed == netloc(url_normalized)
    IN  IF urlparse_raises(url_normalized)
        THEN Done(Err("URL parse error"), <<>>)
        ELSE IF parsed = <<>>
        THEN Done(Err("invalid URL format"), <<>>)
        ELSE IF worker.kind = "not_installed"
        THEN Done(Err("Playwright is not installed"), <<>>)
        ELSE IF worker.kind = "success"
        THEN Done(Ok(page_data, metadata), tr)
        ELSE IF worker.kind = "error"
        THEN Done(Err("page load error"), tr)
        ELSE IF worker.kind = "timeout"
        THEN Done(Err("scraping timed out after 60 seconds"), tr)
        ELSE Done(Err("the worker thread failed"), tr)

(***************************************************************************)
(* market_news_agent: the news-flash feed.  get_market_data polls the      *)
(* endpoint in a loop, so it is modelled step by step: `pc` is the place   *)
(* of the running invocation, `attempts` counts the requests of the loop   *)
(* (the loop has no bound; the counter stops counting at MaxAttempts),     *)
(* `response` is the parsed body of the request that succeeded.            *)
(***************************************************************************)
MaxAttempts == 3

NoResponse == [has_tbody |-> FALSE, tbody |-> <<>>, received |-> FALSE]

\* params of get_market_data; built once, before the loop
news_request(last_id) == [type |-> "1", lan |-> "cn", userid |-> "", lastid |-> last_id, pagesize |-> 1000, version |-> "v1"]

\* time.sleep(5) of the except branch
BACKOFF_SECONDS == 5

\* return data['data']['tbody']: KeyError when the body has no such entry
get_market_data_return(body) ==
    IF body.has_tbody THEN [kind |-> "return", value |-> body.tbody] ELSE [kind |-> "raise", exc |-> "KeyError"]

\* get_latest_market_news given what get_market_data handed back
get_latest_market_news(limit, fetched) ==
    IF limit < 1 \/ limit > 1000
    THEN Err("limit must be an integer from 1 to 1000")
    ELSE IF fetched.kind = "raise"
    THEN Err("error while fetching the latest news")
    ELSE
    LET market_data == fetched.value
        limited_data == IF Len(market_data) > limit THEN Slice(market_data, limit) ELSE market_data
        clean_data == clean_news(limited_data)
        news_data == [news |-> clean_data, count_info |-> [total_available |-> Len(market_data), requested_limit |-> limit, actual_returned |-> Len(clean_data)]]
        metadata == [timestamp |-> "time", data_source |-> "AiCoin API", requested_limit |-> limit, total_available_count |-> Len(market_data), returned_count |-> Len(clean_data)]
    IN  IF ~all_times_parse(limited_data)
        THEN Err("error while fetching the latest news")
        ELSE Ok(news_data, metadata)

(***************************************************************************)
(* The values the calling agent and the outside world are drawn from.      *)
(***************************************************************************)
Symbols == {<<>>, <<" ">>, <<"B","/","U">>, <<"B","U">>, <<"B","/","U",":","U">>, <<" ","b","/","u",":","u"," ">>}

ExchangeNames == {<<>>, <<" ">>, BINANCE, OKX, <<" ","O","K","X"," ">>, FTX}

SpotSides == {<<"b","u","y">>, <<" ","S","E","L","L"," ">>, <<"h","o","l","d">>}

OrderSides == {<<"o","p","e","n","_","l","o","n","g">>, <<"o","p","e","n","_","s","h","o","r","t">>, <<"c","l","o","s","e","_","l","o","n","g">>, <<" ","C","L","O","S","E","_","S","H","O","R","T"," ">>, <<"b","u","y">>}

\* thousandths: 0, 1.5
Amounts == {0, 1500}

\* thousandths: 0, 10.05
Prices == {0, 10050}

\* the amounts of futures orders, in thousandths: also 0.3
FuturesAmounts == Amounts \cup {300}

OrderIds == {<<>>, <<" ","7"," ">>}

Assets == {<<>>, <<" ">>, <<"u","s","d","t">>, <<"B","T","C">>}

\* the process environment the agent was started in
ENV_BINANCE == {upper(BINANCE) \o API_KEY_SUFFIX, upper(BINANCE) \o SECRET_SUFFIX}

\* credentials kept for an exchange the tools do not support
ENV_FTX == {upper(FTX) \o API_KEY_SUFFIX, upper(FTX) \o SECRET_SUFFIX}

ENV_OKX == {upper(OKX) \o API_KEY_SUFFIX, upper(OKX) \o SECRET_SUFFIX, upper(OKX) \o PASSWORD_SUFFIX}

\* os.environ holding the variables of `names`, each with a value
Variables(names) == [name \in names |-> "set"]

\* binance and okx complete; binance, ftx and okx without its passphrase
EnvChoices == {Variables(names) : names \in {ENV_BINANCE \cup ENV_OKX, (ENV_BINANCE \cup ENV_FTX \cup ENV_OKX) \ {upper(OKX) \o PASSWORD_SUFFIX}}}

\* no .env file
NoDotenv == Variables({})

\* a .env file with the binance credentials and the okx key and secret
DotenvFile == Variables(ENV_BINANCE \cup {upper(OKX) \o API_KEY_SUFFIX, upper(OKX) \o SECRET_SUFFIX})

\* os.environ and the .env file the process starts with: credentials set and
\* no file, or the file and an environment whose only variable is an empty
\* okx key, which leaves okx and ftx without credentials
Machines ==
    {[environ |-> e, dotenv |-> NoDotenv] : e \in EnvChoices}
        \cup {[environ |-> [name \in {upper(OKX) \o API_KEY_SUFFIX} |-> ""], dotenv |-> DotenvFile]}

ExtChoices == {ExtOk, [ExtOk EXCEPT !.load = "Exception"], [ExtOk EXCEPT !.op = "Exception"], [ExtOk EXCEPT !.op = "ValueError"], [ExtOk EXCEPT !.op = "AttributeError"], [ExtOk EXCEPT !.op = "malformed"]}

Markets == {MarketOne, [MarketOne EXCEPT !.listed = FALSE], [MarketOne EXCEPT !.contractSize = 0], [MarketOne EXCEPT !.contractSize = 400, !.amount_precision = <<"0",".","0","0","0","1">>, !.price_precision = <<"1">>]}

FuturesExtChoices == ExtChoices \cup {[ExtOk EXCEPT !.market = m] : m \in Markets}

BookExtChoices == {ExtOk, [ExtOk EXCEPT !.op = "Exception"], [ExtOk EXCEPT !.op = "ValueError"], [ExtOk EXCEPT !.book = [bids |-> <<>>, asks |-> <<<<101, 1>>>>]], [ExtOk EXCEPT !.has = FALSE]}

SavingsExtChoices == ExtChoices \cup {[ExtOk EXCEPT !.products = <<<<"B","T","C">>, USDT>>]}

Timeframes == {<<>>, <<" ","1","H"," ">>}

Candle(open, close) == [open |-> open, high |-> 150, low |-> 0, close |-> close, volume |-> 7]

CandleLists == {<<>>, <<Candle(0, 50)>>, <<Candle(0, 50), Candle(50, 100)>>, <<Candle(100, 50)>>, <<Candle(100, 100), Candle(100, 150)>>}

KlineExtChoices == {e @@ [candles |-> c] : e \in {ExtOk, [ExtOk EXCEPT !.op = "Exception"], [ExtOk EXCEPT !.op = "ValueError"], [ExtOk EXCEPT !.has = FALSE]}, c \in CandleLists}

OpenInterestLists == {<<>>, <<<<0>>>>, <<<<0>>, <<50>>>>, <<<<100>>, <<50>>>>, <<<<0>>, <<50>>, NoAmount>>, <<NoAmount, <<0>>, <<50>>>>, <<<<0>>, NoAmount, <<50>>>>, <<NoAmount, NoAmount>>}

OpenInterestExtChoices == {e @@ [oi |-> h] : e \in {ExtOk, [ExtOk EXCEPT !.op = "Exception"], [ExtOk EXCEPT !.op = "ValueError"], [ExtOk EXCEPT !.has = FALSE]}, h \in OpenInterestLists}

DepthLimits == {-1, 0, 1, 100, 101}

NewsLimits == {0, 1, 2, 1000, 1001}

PageSizes == {0, 1, 100, 101}

ResultCounts == {0, 1, 2, 10, 11, 100, 101}

GoodItem == [title |-> "flash", time |-> <<"1","7">>, has_data |-> TRUE]

\* an item whose createTime is written with an Arabic-Indic digit, which int() reads
ArabicItem == [title |-> "flash", time |-> <<"U+0663">>, has_data |-> TRUE]

BadItem == [title |-> "flash", time |-> <<"x">>, has_data |-> FALSE]

\* an item dated 10000-01-01 00:00:00
LateItem == [title |-> "flash", time |-> <<"2","5","3","4","0","2","3","0","0","8","0","0">>, has_data |-> TRUE]

Bodies == {[has_tbody |-> FALSE, tbody |-> <<>>, received |-> TRUE], [has_tbody |-> TRUE, tbody |-> <<>>, received |-> TRUE], [has_tbody |-> TRUE, tbody |-> <<GoodItem, GoodItem>>, received |-> TRUE], [has_tbody |-> TRUE, tbody |-> <<GoodItem, BadItem>>, received |-> TRUE]}

HttpAnswers == {[kind |-> "ok", list |-> <<GoodItem, GoodItem>>], [kind |-> "ok", list |-> <<GoodItem, BadItem>>], [kind |-> "ok", list |-> <<GoodItem, LateItem>>], [kind |-> "ok", list |-> <<ArabicItem>>], [kind |-> "ok", list |-> <<GoodItem>>, count |-> 57], [kind |-> "ok", list |-> <<>>], [kind |-> "Timeout", list |-> <<>>], [kind |-> "ConnectionError", list |-> <<>>], [kind |-> "Exception", list |-> <<>>], [kind |-> "status", list |-> <<>>], [kind |-> "badjson", list |-> <<>>], [kind |-> "unsuccessful", list |-> <<>>]}

BatchAnswers == {[kind |-> "ok", list |-> <<GoodItem, ArabicItem>>], [kind |-> "ok", list |-> <<GoodItem, BadItem>>], [kind |-> "Timeout", list |-> <<>>]}

Keywords == {<<" ">>, <<" ","e","t","f"," ">>, <<"b","t","c">>}

MaxKeywords == 3

KeywordLists == UNION {[1..n -> Keywords] : n \in 0..MaxKeywords}

Queries == {<<>>, <<" ">>, <<" ","b","t","c"," ">>}

Langs == {<<>>, <<"e","n">>}

Containers == <<[title |-> <<"a">>, url |-> <<"u","1">>, raises |-> FALSE], [title |-> <<"b">>, url |-> <<"u","1">>, raises |-> FALSE], [title |-> <<>>, url |-> <<"u","2">>, raises |-> FALSE], [title |-> <<"c">>, url |-> <<"u","3">>, raises |-> FALSE]>>

Link == [url |-> <<"u","1">>, text |-> <<"a">>]

\* what the loaded search page gives the worker when everything works: result
\* containers and links, or none
PageChoices == {[kind |-> "success", containers |-> Containers, links |-> <<Link>>], [kind |-> "success", containers |-> <<>>, links |-> <<>>]}

\* what _playwright_scraper reads from the page it loaded: the links, whether
\* page.goto() handed back a response and its status, and page.url, the
\* address the browser ended at (after a redirect another one than the
\* address asked for)
ScrapedPages ==
    {[kind |-> "success", containers |-> <<>>, links |-> <<Link>>, has_response |-> TRUE, status |-> 200, page_url |-> HTTPS_PREFIX \o <<"a", ".", "i", "o", "/">>],
     [kind |-> "success", containers |-> <<>>, links |-> <<>>, has_response |-> TRUE, status |-> 404, page_url |-> HTTPS_PREFIX \o <<"b", ".", "i", "o", "/", "m", "o", "v", "e", "d">>],
     [kind |-> "success", containers |-> <<>>, links |-> <<>>, has_response |-> FALSE, status |-> 0, page_url |-> HTTPS_PREFIX \o <<"a", ".", "i", "o", "/">>]}

\* patchright cannot be imported: no worker is started
NotInstalled == [kind |-> "not_installed", containers |-> <<>>, links |-> <<>>]

\* how the fetch of one result's page goes: the page is read, curl_cffi.get
\* raises, or the parsing of the page raises
FetchOutcomes == {"ok", "get_raised", "parse_raised"}

Urls == {<<>>, <<" ">>, <<"a",".","i","o">>, HTTP_PREFIX \o <<"a",".","i","o","/","x">>, HTTPS_PREFIX, <<" ">> \o HTTPS_PREFIX \o <<"a",".","i","o">>, <<"[","a">>}

\* a submitted program: its text, how its top-level statements end, what its
\* main() does ("absent": it defines none), the value it binds to the name
\* `result` (None: it binds none), and whether it ends with
\* `if __name__ == "__main__": main()`
Codes == {c \in [text : {<<>>, <<" ">>, <<"x","=","1">>}, exec : {"ok", "SyntaxError", "NameError", "ImportError", "ValueError", "SystemExit"}, main : {"absent", "none", "value", "Exception", "KeyboardInterrupt"}, result : {None, <<"4","2">>}, calls_main : BOOLEAN] : c.calls_main => c.main # "absent"}

(***************************************************************************)
(* The agent runtime: one invocation at a time.  An invocation of a tool   *)
(* that makes no loop runs to its end in one step; `inv` then holds the    *)
(* tool, the arguments, what the outside world did (`ext`) and how the     *)
(* call ended (`out`).  AgentReceives is the caller taking the result.     *)
(***************************************************************************)
\* no worker thread, no browser
NoThread == [fn |-> "none", pc |-> "none", status |-> "none", raising |-> FALSE, exc |-> "none"]

NoBrowser == [launched |-> FALSE, context |-> "none", close_called |-> FALSE]

\* the most entries the tools add to the module search path
MaxPathEntries == 1

\* the process-wide values the tools touch, as they are after import:
\* the entries added to sys.path, and the standard streams
\* a stream: the buffer a code_execution_python call on thread `owner`
\* created, or the stream of the interpreter (owner 0)
Console == [owner |-> 0, name |-> "console"]

AtImport == [sys_path |-> <<>>, stdout |-> Console, stderr |-> Console]

\* the threads on which the runtime calls code_execution_python
Threads == {1, 2}

\* no call of code_execution_python is running on the thread
NoExecution == [pc |-> "idle", block |-> "none", main_defined |-> FALSE, raised |-> FALSE, old_stdout |-> <<>>, old_stderr |-> <<>>]

NoInv == [tool |-> "none"]

Invocation(tool, args, ext, out) == [tool |-> tool, args |-> args, ext |-> ext, out |-> out]

Init ==
    /\ pc = "idle"
    /\ inv = NoInv
    /\ \E machine \in Machines : env = machine.environ /\ dotenv_file = machine.dotenv
    /\ attempts = 0
    /\ response = NoResponse
    /\ thread = NoThread
    /\ browser = NoBrowser
    /\ process = AtImport
    /\ executions = [t \in Threads |-> NoExecution]

Finish(tool, args, ext, out) ==
    /\ inv' = Invocation(tool, args, ext, out)
    /\ pc' = "ended"
    /\ env' = IF "environ" \in DOMAIN out THEN out.environ ELSE env
    /\ UNCHANGED <<dotenv_file, attempts, response, thread, browser, process, executions>>

GetSpotBalance ==
    /\ pc = "idle"
    /\ \E exchange_name \in ExchangeNames, ext \in ExtChoices :
        Finish("get_spot_balance", [exchange_name |-> exchange_name], ext, get_spot_balance(exchange_name, env, dotenv_file, ext))

PlaceSpotOrder ==
    /\ pc = "idle"
    /\ \E symbol \in Symbols, side \in SpotSides, amount \in Amounts, price \in Prices, exchange_name \in ExchangeNames, ext \in ExtChoices :
        Finish("place_spot_order", [symbol |-> symbol, side |-> side, amount |-> amount, price |-> price, exchange_name |-> exchange_name], ext, place_spot_order(symbol, side, amount, price, exchange_name, env, dotenv_file, ext))

GetSpotOrders ==
    /\ pc = "idle"
    /\ \E symbol \in Symbols, exchange_name \in ExchangeNames, ext \in ExtChoices :
        Finish("get_spot_orders", [symbol |-> symbol, exchange_name |-> exchange_name], ext, get_spot_orders(symbol, exchange_name, env, dotenv_file, ext))

CancelSpotOrder ==
    /\ pc = "idle"
    /\ \E order_id \in OrderIds, symbol \in Symbols, exchange_name \in ExchangeNames, ext \in ExtChoices :
        Finish("cancel_spot_order", [order_id |-> order_id, symbol |-> symbol, exchange_name |-> exchange_name], ext, cancel_spot_order(order_id, symbol, exchange_name, env, dotenv_file, ext))

GetSpotOpenOrders ==
    /\ pc = "idle"
    /\ \E symbol \in Symbols, exchange_name \in ExchangeNames, ext \in ExtChoices :
        Finish("get_spot_open_orders", [symbol |-> symbol, exchange_name |-> exchange_name], ext, get_spot_open_orders(symbol, exchange_name, env, dotenv_file, ext))

GetSpotClosedOrders ==
    /\ pc = "idle"
    /\ \E symbol \in Symbols, exchange_name \in ExchangeNames, ext \in ExtChoices :
        Finish("get_spot_closed_orders", [symbol |-> symbol, exchange_name |-> exchange_name], ext, get_spot_closed_orders(symbol, exchange_name, env, dotenv_file, ext))

GetSpotOrderDetail ==
    /\ pc = "idle"
    /\ \E order_id \in OrderIds, symbol \in Symbols, exchange_name \in ExchangeNames, ext \in ExtChoices :
        Finish("get_spot_order_detail", [order_id |-> order_id, symbol |-> symbol, exchange_name |-> exchange_name], ext, get_spot_order_detail(order_id, symbol, exchange_name, env, dotenv_file, ext))

GetFuturesBalance ==
    /\ pc = "idle"
    /\ \E exchange_name \in ExchangeNames, ext \in ExtChoices :
        Finish("get_futures_balance", [exchange_name |-> exchange_name], ext, get_futures_balance(exchange_name, env, dotenv_file, ext))

PlaceFuturesOrder ==
    /\ pc = "idle"
    /\ \E symbol \in Symbols, side \in OrderSides, amount \in FuturesAmounts, price \in Prices, exchange_name \in ExchangeNames, ext \in FuturesExtChoices :
        Finish("place_futures_order", [symbol |-> symbol, side |-> side, amount |-> amount, price |-> price, exchange_name |-> exchange_name], ext, place_futures_order(symbol, side, amount, price, exchange_name, env, dotenv_file, ext))

GetFuturesOpenOrders ==
    /\ pc = "idle"
    /\ \E symbol \in Symbols, exchange_name \in ExchangeNames, ext \in ExtChoices :
        Finish("get_futures_open_orders", [symbol |-> symbol, exchange_name |-> exchange_name], ext, get_futures_open_orders(symbol, exchange_name, env, dotenv_file, ext))

GetFuturesClosedOrders ==
    /\ pc = "idle"
    /\ \E symbol \in Symbols, exchange_name \in ExchangeNames, ext \in ExtChoices :
        Finish("get_futures_closed_orders", [symbol |-> symbol, exchange_name |-> exchange_name], ext, get_futures_closed_orders(symbol, exchange_name, env, dotenv_file, ext))

GetFuturesOrderDetail ==
    /\ pc = "idle"
    /\ \E order_id \in OrderIds, symbol \in Symbols, exchange_name \in ExchangeNames, ext \in ExtChoices :
        Finish("get_futures_order_detail", [order_id |-> order_id, symbol |-> symbol, exchange_name |-> exchange_name], ext, get_futures_order_detail(order_id, symbol, exchange_name, env, dotenv_file, ext))

GetFuturesPositions ==
    /\ pc = "idle"
    /\ \E symbol \in Symbols, exchange_name \in ExchangeNames, ext \in ExtChoices :
        Finish("get_futures_positions", [symbol |-> symbol, exchange_name |-> exchange_name], ext, get_futures_positions(symbol, exchange_name, env, dotenv_file, ext))

CancelFuturesOrder ==
    /\ pc = "idle"
    /\ \E order_id \in OrderIds, symbol \in Symbols, exchange_name \in ExchangeNames, ext \in ExtChoices :
        Finish("cancel_futures_order", [order_id |-> order_id, symbol |-> symbol, exchange_name |-> exchange_name], ext, cancel_futures_order(order_id, symbol, exchange_name, env, dotenv_file, ext))

GetSavingsProducts ==
    /\ pc = "idle"
    /\ \E exchange_name \in ExchangeNames, ext \in SavingsExtChoices :
        Finish("get_savings_products", [exchange_name |-> exchange_name], ext, get_savings_products(exchange_name, env, dotenv_file, ext))

GetSavingsYieldByAsset ==
    /\ pc = "idle"
    /\ \E asset \in Assets, exchange_name \in ExchangeNames, ext \in SavingsExtChoices :
        Finish("get_savings_yield_by_asset", [asset |-> asset, exchange_name |-> exchange_name], ext, get_savings_yield_by_asset(asset, exchange_name, env, dotenv_file, ext))

RedeemSavingsProduct ==
    /\ pc = "idle"
    /\ \E asset \in Assets, amount \in Amounts, exchange_name \in ExchangeNames, ext \in ExtChoices :
        Finish("redeem_savings_product", [asset |-> asset, amount |-> amount, exchange_name |-> exchange_name], ext, redeem_savings_product(asset, amount, exchange_name, env, dotenv_file, ext))

PurchaseSavingsProduct ==
    /\ pc = "idle"
    /\ \E asset \in Assets, amount \in Amounts, exchange_name \in ExchangeNames, ext \in ExtChoices :
        Finish("purchase_savings_product", [asset |-> asset, amount |-> amount, exchange_name |-> exchange_name], ext, purchase_savings_product(asset, amount, exchange_name, env, dotenv_file, ext))

GetSavingsBalance ==
    /\ pc = "idle"
    /\ \E exchange_name \in ExchangeNames, ext \in ExtChoices :
        Finish("get_savings_balance", [exchange_name |-> exchange_name], ext, get_savings_balance(exchange_name, env, dotenv_file, ext))

GetTickerData ==
    /\ pc = "idle"
    /\ \E symbol \in Symbols, exchange_name \in ExchangeNames, ext \in BookExtChoices :
        Finish("get_ticker_data", [symbol |-> symbol, exchange_name |-> exchange_name], ext, get_ticker_data(symbol, exchange_name, ext))

GetOrderbookData ==
    /\ pc = "idle"
    /\ \E symbol \in Symbols, exchange_name \in ExchangeNames, limit \in DepthLimits, ext \in BookExtChoices :
        Finish("get_orderbook_data", [symbol |-> symbol, exchange_name |-> exchange_name, limit |-> limit], ext, get_orderbook_data(symbol, exchange_name, limit, ext))

GetTradesData ==
    /\ pc = "idle"
    /\ \E symbol \in Symbols, exchange_name \in ExchangeNames, limit \in DepthLimits, ext \in BookExtChoices :
        Finish("get_trades_data", [symbol |-> symbol, exchange_name |-> exchange_name, limit |-> limit], ext, get_trades_data(symbol, exchange_name, limit, ext))

GetKlineData ==
    /\ pc = "idle"
    /\ \E symbol \in Symbols, timeframe \in Timeframes, exchange_name \in ExchangeNames, ext \in KlineExtChoices :
        Finish("get_kline_data", [symbol |-> symbol, timeframe |-> timeframe, exchange_name |-> exchange_name], ext, get_kline_data(symbol, timeframe, exchange_name, ext))

GetOpenInterestData ==
    /\ pc = "idle"
    /\ \E symbol \in Symbols, exchange_name \in ExchangeNames, timeframe \in Timeframes, ext \in OpenInterestExtChoices :
        Finish("get_open_interest_data", [symbol |-> symbol, exchange_name |-> exchange_name, timeframe |-> timeframe], ext, get_open_interest_data(symbol, exchange_name, timeframe, ext))

GetFundingRate ==
    /\ pc = "idle"
    /\ \E symbol \in Symbols, exchange_name \in ExchangeNames, limit \in DepthLimits, ext \in BookExtChoices :
        Finish("get_funding_rate", [symbol |-> symbol, exchange_name |-> exchange_name, limit |-> limit], ext, get_funding_rate(symbol, exchange_name, limit, ext))

SearchMarketNews ==
    /\ pc = "idle"
    /\ \E keyword \in Keywords \cup {<<>>}, page_size \in PageSizes, answer \in HttpAnswers :
        Finish("search_market_news", [keyword |-> keyword, page_size |-> page_size], answer, search_market_news(keyword, page_size, answer))

GetMacroData ==
    /\ pc = "idle"
    /\ \E limit \in DepthLimits, answer \in HttpAnswers :
        Finish("get_macro_data", [limit |-> limit], answer, get_macro_data(limit, answer))

CodeExecutionPython ==
    /\ pc = "idle"
    /\ \E code \in Codes :
        Finish("code_execution_python", [code |-> code.text], code, code_execution_python(code))

(***************************************************************************)
(* get_latest_market_news, step by step.  pc = "post": get_market_data is  *)
(* about to send a request; "sleep": the request or the parsing of its     *)
(* body raised and the except branch is about to sleep; "index": the loop  *)
(* was left by `break`; "shape": get_market_data has handed back.          *)
(***************************************************************************)
NewsAnswers == {[kind |-> "Exception"], [kind |-> "badjson"]} \cup {[kind |-> "ok", body |-> b] : b \in Bodies}

GetLatestMarketNews ==
    /\ pc = "idle"
    /\ \E limit \in NewsLimits :
        IF limit < 1 \/ limit > 1000
        THEN /\ inv' = Invocation("get_latest_market_news", [limit |-> limit], [request |-> news_request(<<>>)], Done(get_latest_market_news(limit, Pending), <<>>))
             /\ pc' = "ended"
        ELSE /\ inv' = Invocation("get_latest_market_news", [limit |-> limit], [request |-> news_request(<<>>)], [outcome |-> Pending, trace |-> <<>>]) @@ [sent |-> <<>>, slept |-> <<>>, fetched |-> Pending]
             /\ pc' = "post"
    /\ attempts' = 0
    /\ response' = NoResponse
    /\ UNCHANGED <<env, dotenv_file, thread, browser, process, executions>>

\* a polling loop that stops after its second failed request
PostNewsFlash_GivesUp ==
    /\ pc = "post"
    /\ \E answer \in NewsAnswers :
        /\ attempts = MaxAttempts => answer.kind # "ok"
        /\ inv' = [inv EXCEPT !.out.trace = IF attempts < MaxAttempts THEN Append(@, "post_news_flash") ELSE @, !.sent = IF attempts < MaxAttempts THEN Append(@, inv.ext.request) ELSE @]
        /\ attempts' = IF attempts < MaxAttempts THEN attempts + 1 ELSE attempts
        /\ IF answer.kind = "ok"
           THEN response' = answer.body /\ pc' = "index"
           ELSE response' = response /\ pc' = IF attempts >= 1 THEN "index" ELSE "sleep"
    /\ UNCHANGED <<env, dotenv_file, thread, browser, process, executions>>

\* one turn of the while loop of get_market_data: requests.post and
\* res.json().  The first MaxAttempts requests are counted and recorded; an
\* endpoint that has failed that many requests fails the later ones too, so
\* every run that leaves the loop has its whole history recorded
PostNewsFlash ==
    /\ pc = "post"
    /\ \E answer \in NewsAnswers :
        /\ attempts = MaxAttempts => answer.kind # "ok"
        /\ inv' = [inv EXCEPT !.out.trace = IF attempts < MaxAttempts THEN Append(@, "post_news_flash") ELSE @, !.sent = IF attempts < MaxAttempts THEN Append(@, inv.ext.request) ELSE @]
        /\ attempts' = IF attempts < MaxAttempts THEN attempts + 1 ELSE attempts
        /\ IF answer.kind = "ok"
           THEN response' = answer.body /\ pc' = "index"
           ELSE response' = response /\ pc' = "sleep"
    /\ UNCHANGED <<env, dotenv_file, thread, browser, process, executions>>

\* the except branch of the loop: time.sleep(5), then the next turn; the
\* sleep after every recorded request is recorded
SleepBackoff ==
    /\ pc = "sleep"
    /\ inv' = [inv EXCEPT !.out.trace = IF Len(inv.slept) < Len(inv.sent) THEN Append(@, "sleep") ELSE @, !.slept = IF Len(inv.slept) < Len(inv.sent) THEN Append(@, BACKOFF_SECONDS) ELSE @]
    /\ pc' = "post"
    /\ UNCHANGED <<env, dotenv_file, attempts, response, thread, browser, process, executions>>

\* return data['data']['tbody']
ReturnMarketData ==
    /\ pc = "index"
    /\ inv' = [inv EXCEPT !.fetched = get_market_data_return(response)]
    /\ pc' = "shape"
    /\ UNCHANGED <<env, dotenv_file, attempts, response, thread, browser, process, executions>>

\* the rest of get_latest_market_news
ShapeLatestNews ==
    /\ pc = "shape"
    /\ inv' = [inv EXCEPT !.out.outcome = [kind |-> "return", value |-> get_latest_market_news(inv.args.limit, inv.fetched)]]
    /\ pc' = "ended"
    /\ UNCHANGED <<env, dotenv_file, attempts, response, thread, browser, process, executions>>

(***************************************************************************)
(* batch_search_market_news, step by step.  pc = "batch_request": the loop *)
(* is about to call search_market_news for the next valid keyword;         *)
(* "batch_answer": the request of that call is with the news server;       *)
(* "batch_sleep": the result is appended and a later keyword is left;      *)
(* "batch_return": the loop is over.  inv.searched are the keywords        *)
(* requested so far, inv.ext.answers what the server answered to them and  *)
(* inv.returned what the calls of search_market_news returned.             *)
(***************************************************************************)
\* the call, the checks of the keyword list and the set-up of the loop
BatchSearchMarketNews ==
    /\ pc = "idle"
    /\ \E keywords \in KeywordLists, page_size_per_keyword \in PageSizes :
        IF valid_keywords_of(keywords) = <<>>
        THEN /\ inv' = Invocation("batch_search_market_news", [keywords |-> keywords, page_size_per_keyword |-> page_size_per_keyword], [answers |-> <<>>], batch_search_market_news(keywords, page_size_per_keyword, <<>>)) @@ [searched |-> <<>>, returned |-> <<>>]
             /\ pc' = "ended"
        ELSE /\ inv' = Invocation("batch_search_market_news", [keywords |-> keywords, page_size_per_keyword |-> page_size_per_keyword], [answers |-> <<>>], [outcome |-> Pending, trace |-> <<>>]) @@ [searched |-> <<>>, returned |-> <<>>]
             /\ pc' = "batch_request"
    /\ UNCHANGED <<env, dotenv_file, attempts, response, thread, browser, process, executions>>

\* search_market_news(keyword, page_size_per_keyword) for the next valid
\* keyword: the keyword and the page size pass its checks and the request
\* is sent
RequestKeyword ==
    /\ pc = "batch_request"
    /\ inv' = [inv EXCEPT !.searched = Append(@, valid_keywords_of(inv.args.keywords)[Len(inv.searched) + 1]), !.out.trace = Append(@, "post_search")]
    /\ pc' = "batch_answer"
    /\ UNCHANGED <<env, dotenv_file, attempts, response, thread, browser, process, executions>>

\* a loop that goes on to the next keyword without the sleep
AnswerKeyword_WithoutDelay ==
    /\ pc = "batch_answer"
    /\ \E answer \in BatchAnswers :
        inv' = [inv EXCEPT !.ext.answers = Append(@, answer),
                           !.returned = Append(@, search_market_news(inv.searched[Len(inv.searched)], IF inv.args.page_size_per_keyword < 1 \/ inv.args.page_size_per_keyword > 100 THEN 10 ELSE inv.args.page_size_per_keyword, answer).outcome.value)]
    /\ pc' = IF Len(inv.searched) < Len(valid_keywords_of(inv.args.keywords)) THEN "batch_request" ELSE "batch_return"
    /\ UNCHANGED <<env, dotenv_file, attempts, response, thread, browser, process, executions>>

\* the server answers, search_market_news returns and the result of the
\* keyword is appended; `if i < len(valid_keywords) - 1` chooses the sleep
AnswerKeyword ==
    /\ pc = "batch_answer"
    /\ \E answer \in BatchAnswers :
        inv' = [inv EXCEPT !.ext.answers = Append(@, answer),
                           !.returned = Append(@, search_market_news(inv.searched[Len(inv.searched)], IF inv.args.page_size_per_keyword < 1 \/ inv.args.page_size_per_keyword > 100 THEN 10 ELSE inv.args.page_size_per_keyword, answer).outcome.value)]
    /\ pc' = IF Len(inv.searched) < Len(valid_keywords_of(inv.args.keywords)) THEN "batch_sleep" ELSE "batch_return"
    /\ UNCHANGED <<env, dotenv_file, attempts, response, thread, browser, process, executions>>

\* time.sleep(0.5), then the next turn of the loop
SleepBetweenKeywords ==
    /\ pc = "batch_sleep"
    /\ inv' = [inv EXCEPT !.out.trace = Append(@, "sleep")]
    /\ pc' = "batch_request"
    /\ UNCHANGED <<env, dotenv_file, attempts, response, thread, browser, process, executions>>

\* after the loop: the overall status, the summary and the return
ReturnBatch ==
    /\ pc = "batch_return"
    /\ inv' = [inv EXCEPT !.out.outcome = batch_search_market_news(inv.args.keywords, inv.args.page_size_per_keyword, inv.ext.answers).outcome]
    /\ pc' = "ended"
    /\ UNCHANGED <<env, dotenv_file, attempts, response, thread, browser, process, executions>>

(***************************************************************************)
(* The two browser tools, step by step.  The caller submits the worker     *)
(* function to a one-thread pool and waits for its future for 60 seconds   *)
(* inside `with ThreadPoolExecutor(...)`; the worker thread launches the   *)
(* browser, loads the page and cleans up.  pc = "waiting": the caller is   *)
(* in future.result(timeout=60); "timed_out": it is in the except branch   *)
(* for the timeout, its return value chosen; "got": it has the worker's    *)
(* result, its return value chosen; in both the `with` block has yet to    *)
(* be left.  thread.pc is the statement the worker thread is at.  A worker *)
(* step can take any time: nothing obliges the thread to take it.          *)
(***************************************************************************)
\* how a statement of the worker ends: it returns, or raises an exception,
\* which may be the builtin TimeoutError (the class future.result raises
\* for an expired wait)
StepOutcomes == {"ok", "Exception", "TimeoutError"}

PageOutcomes == StepOutcomes \cup {"blocked"}

\* executor.submit(fn, ...)
Submitted(fn) == [fn |-> fn, pc |-> "start", status |-> "success", raising |-> FALSE, exc |-> "none"]

\* a statement raised `exc`: inside the try block of the worker the except
\* branch records the error and the finally branch follows; outside of it
\* the exception leaves the body of `with sync_playwright()`
StatementRaised(t, in_try, exc) ==
    IF in_try
    THEN [t EXCEPT !.status = "error", !.pc = "close_context"]
    ELSE [t EXCEPT !.raising = TRUE, !.exc = exc, !.pc = "stop"]

TimeoutAnswer == [kind |-> "timeout", containers |-> <<>>, links |-> <<>>]

\* what future.result() gives for a worker that has finished: its result,
\* or the exception that left it, which `except FutureTimeoutError` takes
\* for an expired wait when it is a TimeoutError
WorkerAnswer(t, page) ==
    IF t.raising /\ t.exc = "TimeoutError" THEN TimeoutAnswer
    ELSE IF t.raising THEN [kind |-> "exception", containers |-> <<>>, links |-> <<>>]
    ELSE IF t.status = "error" THEN [kind |-> "error", containers |-> <<>>, links |-> <<>>]
    ELSE page

\* the return statement the caller reaches for the worker's answer
ToolReturn(i, answer) ==
    IF i.tool = "web_scrapy_playwright"
    THEN web_scrapy_playwright(i.args.url, answer)
    ELSE IF i.tool = "quick_google_search"
    THEN quick_google_search(i.args.query, answer)
    ELSE google_search_playwright(i.args.query, i.args.num_results, i.args.lang, answer)

\* the wait of the caller is over with `answer`: a browser tool has chosen
\* its return value; in search_and_extract_content the search has chosen
\* the value it will hand to the rest of the function
Answered(i, answer) ==
    IF i.tool = "search_and_extract_content"
    THEN [i EXCEPT !.ext = answer, !.out.trace = <<"browser_search">>]
    ELSE [i EXCEPT !.ext = answer, !.out = ToolReturn(i, answer)]

\* web_scrapy_playwright up to executor.submit: the checks of the url and of
\* the installation
SubmitWebScrapy ==
    /\ pc = "idle"
    /\ \E url \in Urls, page \in ScrapedPages \cup {NotInstalled} :
        LET checked == web_scrapy_playwright(url, page)
        IN  IF checked.trace = <<>>
            THEN /\ inv' = Invocation("web_scrapy_playwright", [url |-> url], page, checked)
                 /\ pc' = "ended"
                 /\ thread' = NoThread
            ELSE /\ inv' = Invocation("web_scrapy_playwright", [url |-> url], page, [outcome |-> Pending, trace |-> <<>>])
                 /\ pc' = "waiting"
                 /\ thread' = Submitted("_playwright_scraper")
    /\ browser' = NoBrowser
    /\ UNCHANGED <<env, dotenv_file, attempts, response, process, executions>>

\* google_search_playwright up to executor.submit
SubmitGoogleSearch ==
    /\ pc = "idle"
    /\ \E query \in Queries, num_results \in ResultCounts, lang \in Langs, page \in PageChoices \cup {NotInstalled} :
        LET checked == google_search_playwright(query, num_results, lang, page)
            args == [query |-> query, num_results |-> num_results, lang |-> lang]
        IN  IF checked.trace = <<>>
            THEN /\ inv' = Invocation("google_search_playwright", args, page, checked)
                 /\ pc' = "ended"
                 /\ thread' = NoThread
            ELSE /\ inv' = Invocation("google_search_playwright", args, page, [outcome |-> Pending, trace |-> <<>>])
                 /\ pc' = "waiting"
                 /\ thread' = Submitted("_playwright_google_search_internal")
    /\ browser' = NoBrowser
    /\ UNCHANGED <<env, dotenv_file, attempts, response, process, executions>>

\* quick_google_search up to the executor.submit of the search it calls:
\* its own check of the query, then those of google_search_playwright, which
\* the stripped query, the count 10 and the language "zh-CN" pass
SubmitQuickGoogleSearch ==
    /\ pc = "idle"
    /\ \E query \in Queries, page \in PageChoices \cup {NotInstalled} :
        LET checked == quick_google_search(query, page)
        IN  IF checked.trace = <<>>
            THEN /\ inv' = Invocation("quick_google_search", [query |-> query], page, checked)
                 /\ pc' = "ended"
                 /\ thread' = NoThread
            ELSE /\ inv' = Invocation("quick_google_search", [query |-> query], page, [outcome |-> Pending, trace |-> <<>>])
                 /\ pc' = "waiting"
                 /\ thread' = Submitted("_playwright_google_search_internal")
    /\ browser' = NoBrowser
    /\ UNCHANGED <<env, dotenv_file, attempts, response, process, executions>>

\* search_and_extract_content up to the executor.submit of the search it
\* calls: its own checks, then those of google_search_playwright, which the
\* stripped query, the checked count and the language "zh-CN" pass
SubmitSearchAndExtract ==
    /\ pc = "idle"
    /\ \E query \in Queries, num_results \in ResultCounts, page \in PageChoices \cup {NotInstalled} :
        LET args == [query |-> query, num_results |-> num_results]
        IN  IF Blank(query) \/ num_results < 1 \/ num_results > 10 \/ page = NotInstalled
            THEN /\ inv' = Invocation("search_and_extract_content", args, page, search_and_extract_content(query, num_results, page, <<>>, "none")) @@ [fetches |-> <<>>, scraper |-> "none"]
                 /\ pc' = "ended"
                 /\ thread' = NoThread
            ELSE /\ inv' = Invocation("search_and_extract_content", args, page, [outcome |-> Pending, trace |-> <<>>]) @@ [fetches |-> <<>>, scraper |-> "none"]
                 /\ pc' = "waiting"
                 /\ thread' = Submitted("_playwright_google_search_internal")
    /\ browser' = NoBrowser
    /\ UNCHANGED <<env, dotenv_file, attempts, response, process, executions>>

\* with sync_playwright() as p: the driver is started, outside the try block
\* of either worker
StartPlaywright ==
    /\ thread.pc = "start"
    /\ \E outcome \in StepOutcomes :
        IF outcome = "ok"
        THEN thread' = [thread EXCEPT !.pc = "launch"]
        ELSE thread' = [thread EXCEPT !.raising = TRUE, !.exc = outcome, !.pc = "done"]
    /\ UNCHANGED <<pc, inv, env, dotenv_file, attempts, response, browser, process, executions>>

\* p.chromium.launch(...): inside try in _playwright_scraper, before it in
\* _playwright_google_search_internal, as are the next two statements
Launch ==
    /\ thread.pc = "launch"
    /\ \E outcome \in StepOutcomes :
        IF outcome = "ok"
        THEN thread' = [thread EXCEPT !.pc = "new_context"] /\ browser' = [browser EXCEPT !.launched = TRUE]
        ELSE thread' = StatementRaised(thread, thread.fn = "_playwright_scraper", outcome) /\ browser' = browser
    /\ UNCHANGED <<pc, inv, env, dotenv_file, attempts, response, process, executions>>

\* browser.new_context(...)
NewContext ==
    /\ thread.pc = "new_context"
    /\ \E outcome \in StepOutcomes :
        IF outcome = "ok"
        THEN thread' = [thread EXCEPT !.pc = "new_page"] /\ browser' = [browser EXCEPT !.context = "open"]
        ELSE thread' = StatementRaised(thread, thread.fn = "_playwright_scraper", outcome) /\ browser' = browser
    /\ UNCHANGED <<pc, inv, env, dotenv_file, attempts, response, process, executions>>

\* context.new_page()
NewPage ==
    /\ thread.pc = "new_page"
    /\ \E outcome \in StepOutcomes :
        IF outcome = "ok"
        THEN thread' = [thread EXCEPT !.pc = "page"]
        ELSE thread' = StatementRaised(thread, thread.fn = "_playwright_scraper", outcome)
    /\ UNCHANGED <<pc, inv, env, dotenv_file, attempts, response, browser, process, executions>>

\* page.goto(...) and the reading of the page, inside try in both workers;
\* "blocked": the search page shows the traffic check and the worker
\* returns early, through finally
LoadPage ==
    /\ thread.pc = "page"
    /\ \E outcome \in PageOutcomes :
        IF outcome = "ok" \/ (outcome = "blocked" /\ thread.fn = "_playwright_scraper")
        THEN thread' = [thread EXCEPT !.pc = "close_context"]
        ELSE thread' = StatementRaised(thread, TRUE, outcome)
    /\ UNCHANGED <<pc, inv, env, dotenv_file, attempts, response, browser, process, executions>>

\* the clean-up, first statement: context.close().  _playwright_scraper
\* guards it with `if context:` and swallows what the clean-up raises;
\* in _playwright_google_search_internal what it raises leaves the function
CloseContext ==
    /\ thread.pc = "close_context"
    /\ \E outcome \in StepOutcomes :
        IF browser.context # "open"
        THEN thread' = [thread EXCEPT !.pc = "close_browser"] /\ browser' = browser
        ELSE IF outcome = "ok"
        THEN thread' = [thread EXCEPT !.pc = "close_browser"] /\ browser' = [browser EXCEPT !.context = "closed"]
        ELSE /\ thread' = IF thread.fn = "_playwright_scraper" THEN [thread EXCEPT !.pc = "stop"] ELSE [thread EXCEPT !.pc = "stop", !.raising = TRUE, !.exc = outcome]
             /\ browser' = browser
    /\ UNCHANGED <<pc, inv, env, dotenv_file, attempts, response, process, executions>>

\* the clean-up, second statement: browser.close()
CloseBrowser ==
    /\ thread.pc = "close_browser"
    /\ \E outcome \in StepOutcomes :
        IF ~browser.launched
        THEN thread' = [thread EXCEPT !.pc = "stop"] /\ browser' = browser
        ELSE /\ thread' = IF outcome = "ok" \/ thread.fn = "_playwright_scraper" THEN [thread EXCEPT !.pc = "stop"] ELSE [thread EXCEPT !.pc = "stop", !.raising = TRUE, !.exc = outcome]
             /\ browser' = [browser EXCEPT !.close_called = TRUE]
    /\ UNCHANGED <<pc, inv, env, dotenv_file, attempts, response, process, executions>>

\* the body of `with sync_playwright()` is left, by its end or by an
\* exception: the driver is stopped, and what that raises leaves the worker
StopPlaywright ==
    /\ thread.pc = "stop"
    /\ \E outcome \in StepOutcomes :
        IF outcome = "ok"
        THEN thread' = [thread EXCEPT !.pc = "done"]
        ELSE thread' = [thread EXCEPT !.raising = TRUE, !.exc = outcome, !.pc = "done"]
    /\ UNCHANGED <<pc, inv, env, dotenv_file, attempts, response, browser, process, executions>>

\* future.result(timeout=60) raises the timeout: the worker has not
\* finished; the except branch chooses the timeout result
WaitExpires ==
    /\ pc = "waiting"
    /\ thread.pc # "done"
    /\ pc' = "timed_out"
    /\ inv' = Answered(inv, TimeoutAnswer)
    /\ UNCHANGED <<env, dotenv_file, attempts, response, thread, browser, process, executions>>

\* future.result(timeout=60) hands over what the worker returned or raised
FutureResult ==
    /\ pc = "waiting"
    /\ thread.pc = "done"
    /\ pc' = "got"
    /\ inv' = Answered(inv, WorkerAnswer(thread, inv.ext))
    /\ UNCHANGED <<env, dotenv_file, attempts, response, thread, browser, process, executions>>

\* leaving `with ThreadPoolExecutor(...)`: shutdown(wait=True) joins the
\* worker thread, then the chosen value is returned, to the caller of the
\* tool or to search_and_extract_content
ShutdownPool ==
    /\ pc \in {"timed_out", "got"}
    /\ thread.pc = "done"
    /\ pc' = IF inv.tool = "search_and_extract_content" THEN "searched" ELSE "ended"
    /\ UNCHANGED <<inv, env, dotenv_file, attempts, response, thread, browser, process, executions>>

(***************************************************************************)
(* search_and_extract_content after its search.  pc = "searched":          *)
(* google_search_playwright has returned; "fetch": the scraper is imported *)
(* and the loop over the results is running, inv.fetches being how the     *)
(* pages fetched so far went.                                              *)
(***************************************************************************)
\* what search_and_extract_content returns for what happened in the call
ExtractReturn(i) == search_and_extract_content(i.args.query, i.args.num_results, i.ext, i.fetches, i.scraper).outcome

\* the results of a search that succeeded
SearchResults(i) == google_search_playwright(strip(i.args.query), i.args.num_results, ZH_CN, i.ext).outcome.value.data.results

\* if search_result["status"] != "success": return search_result
ReturnSearchResult ==
    /\ pc = "searched"
    /\ inv.ext.kind # "success"
    /\ inv' = [inv EXCEPT !.out.outcome = ExtractReturn(inv)]
    /\ pc' = "ended"
    /\ UNCHANGED <<env, dotenv_file, attempts, response, thread, browser, process, executions>>

\* sys.path.append(<repository root>) and the import of the scraper, which
\* succeeds, raises ImportError or raises something else.  The entries are
\* counted up to MaxPathEntries
ImportScraper ==
    /\ pc = "searched"
    /\ inv.ext.kind = "success"
    /\ \E scraper \in {"ok", "ImportError", "Exception"} :
        /\ inv' = IF scraper = "ok" THEN [inv EXCEPT !.scraper = scraper] ELSE [inv EXCEPT !.scraper = scraper, !.out.outcome = ExtractReturn([inv EXCEPT !.scraper = scraper])]
        /\ pc' = IF scraper = "ok" THEN "fetch" ELSE "ended"
    /\ process' = [process EXCEPT !.sys_path = IF Len(@) < MaxPathEntries THEN Append(@, "repository_root") ELSE @]
    /\ UNCHANGED <<env, dotenv_file, attempts, response, thread, browser, executions>>

\* one turn of the loop over the results: curl_cffi.get and the parsing of
\* the page, either of which may raise
FetchPage ==
    /\ pc = "fetch"
    /\ Len(inv.fetches) < Len(SearchResults(inv))
    /\ \E fetched \in FetchOutcomes :
        inv' = [inv EXCEPT !.fetches = Append(@, fetched), !.out.trace = Append(@, "get_page")]
    /\ UNCHANGED <<pc, env, dotenv_file, attempts, response, thread, browser, process, executions>>

\* after the loop: the enhanced results are returned
ReturnExtracted ==
    /\ pc = "fetch"
    /\ Len(inv.fetches) = Len(SearchResults(inv))
    /\ inv' = [inv EXCEPT !.out.outcome = ExtractReturn(inv)]
    /\ pc' = "ended"
    /\ UNCHANGED <<env, dotenv_file, attempts, response, thread, browser, process, executions>>

\* the caller takes what the invocation handed back
AgentReceives ==
    /\ pc = "ended"
    /\ pc' = "idle"
    /\ inv' = NoInv
    /\ attempts' = 0
    /\ response' = NoResponse
    /\ thread' = NoThread
    /\ browser' = NoBrowser
    /\ UNCHANGED <<env, dotenv_file, process, executions>>

Next ==
    \/ GetSpotBalance
    \/ PlaceSpotOrder
    \/ GetSpotOrders
    \/ CancelSpotOrder
    \/ GetSpotOpenOrders
    \/ GetSpotClosedOrders
    \/ GetSpotOrderDetail
    \/ GetFuturesBalance
    \/ PlaceFuturesOrder
    \/ GetFuturesOpenOrders
    \/ GetFuturesClosedOrders
    \/ GetFuturesOrderDetail
    \/ GetFuturesPositions
    \/ CancelFuturesOrder
    \/ GetSavingsProducts
    \/ GetSavingsYieldByAsset
    \/ RedeemSavingsProduct
    \/ PurchaseSavingsProduct
    \/ GetSavingsBalance
    \/ GetTickerData
    \/ GetOrderbookData
    \/ GetTradesData
    \/ GetKlineData
    \/ GetOpenInterestData
    \/ GetFundingRate
    \/ SearchMarketNews
    \/ GetMacroData
    \/ CodeExecutionPython
    \/ GetLatestMarketNews
    \/ BatchSearchMarketNews
    \/ SubmitWebScrapy
    \/ SubmitGoogleSearch
    \/ SubmitQuickGoogleSearch
    \/ SubmitSearchAndExtract
    \/ PostNewsFlash
    \/ SleepBackoff
    \/ ReturnMarketData
    \/ ShapeLatestNews
    \/ RequestKeyword
    \/ AnswerKeyword
    \/ SleepBetweenKeywords
    \/ ReturnBatch
    \/ StartPlaywright
    \/ Launch
    \/ NewContext
    \/ NewPage
    \/ LoadPage
    \/ CloseContext
    \/ CloseBrowser
    \/ StopPlaywright
    \/ WaitExpires
    \/ FutureResult
    \/ ShutdownPool
    \/ ReturnSearchResult
    \/ ImportScraper
    \/ FetchPage
    \/ ReturnExtracted
    \/ AgentReceives

Spec == Init /\ [][Next]_vars

(***************************************************************************)
(* get_latest_market_news on its own, with the fairness its execution has: *)
(* a running invocation keeps running, the interpreter executing the next   *)
(* statement of the function, and the caller takes a handed-back result.   *)
(***************************************************************************)
PollingNext ==
    \/ GetLatestMarketNews
    \/ PostNewsFlash
    \/ SleepBackoff
    \/ ReturnMarketData
    \/ ShapeLatestNews
    \/ AgentReceives

Fairness == WF_vars(PostNewsFlash) /\ WF_vars(SleepBackoff) /\ WF_vars(ReturnMarketData) /\ WF_vars(ShapeLatestNews) /\ WF_vars(AgentReceives)

FairSpec == Init /\ [][PollingNext]_vars /\ Fairness

BrowserNext ==
    \/ SubmitWebScrapy
    \/ SubmitGoogleSearch
    \/ SubmitQuickGoogleSearch
    \/ StartPlaywright
    \/ Launch
    \/ NewContext
    \/ NewPage
    \/ LoadPage
    \/ CloseContext
    \/ CloseBrowser
    \/ StopPlaywright
    \/ WaitExpires
    \/ FutureResult
    \/ ShutdownPool
    \/ AgentReceives

BrowserSpec == Init /\ [][BrowserNext]_vars

(***************************************************************************)
(* The normalizers on their own: one step applies the three of them to a   *)
(* string, a head followed by up to MaxTailLen characters.                 *)
(***************************************************************************)
MaxTailLen == 3

\* blanks of ASCII and of Unicode, letters of either case, and letters whose
\* case mapping is longer than the letter (ß, ŉ, İ, ﬀ), depends on the
\* letters around it (Σ) or does not map back (the Kelvin sign)
TailChars == {" ", "\t", "U+2000", "a", "B", ":", "ß", "U+0149", "U+0130", "U+FB00", "U+03A3", "U+212A"}

StringHeads == {<<>>, <<" ">>, HTTP_PREFIX, HTTPS_PREFIX, <<" ">> \o HTTPS_PREFIX, upper(HTTP_PREFIX), <<"h","t","t","p",":","/">>}

InputStrings == {head \o tail : head \in StringHeads, tail \in UNION {[1..n -> TailChars] : n \in 0..MaxTailLen}}

Normalize ==
    /\ pc = "idle"
    /\ \E s \in InputStrings :
        Finish("normalize", [s |-> s], <<>>, Done([symbol |-> normalize_symbol(s), name |-> normalize_name(s), url |-> normalize_url(s)], <<>>))

NormalizeNext ==
    \/ Normalize
    \/ AgentReceives

NormalizeSpec == Init /\ [][NormalizeNext]_vars

(***************************************************************************)
(* The container loop on its own: one step parses a page of up to          *)
(* MaxContainers result containers.                                        *)
(***************************************************************************)
MaxContainers == 4

\* a result, a second title for the same link, a container without title,
\* one without link, one whose inspection raises, and another result
ContainerKinds == {[title |-> <<"a">>, url |-> <<"u","1">>, raises |-> FALSE], [title |-> <<"b">>, url |-> <<"u","1">>, raises |-> FALSE], [title |-> <<>>, url |-> <<"u","2">>, raises |-> FALSE], [title |-> <<"d">>, url |-> <<>>, raises |-> FALSE], [title |-> <<"e">>, url |-> <<"u","4">>, raises |-> TRUE], [title |-> <<"c">>, url |-> <<"u","3">>, raises |-> FALSE]}

ContainerLists == UNION {[1..n -> ContainerKinds] : n \in 0..MaxContainers}

ParseResultContainers ==
    /\ pc = "idle"
    /\ \E containers \in ContainerLists, num_results \in {1, 2, 3} :
        Finish("_playwright_google_search_internal", [num_results |-> num_results], [containers |-> containers], Done(parse_result_containers(containers, num_results), <<>>))

ParseNext ==
    \/ ParseResultContainers
    \/ AgentReceives

ParseSpec == Init /\ [][ParseNext]_vars

(***************************************************************************)
(* code_execution_python step by step on the threads of the runtime.  A    *)
(* call runs the submitted code, and then its main(), inside               *)
(* `with redirect_stdout(buffer), redirect_stderr(buffer)`: entering a     *)
(* redirect saves the stream that sys names at that moment and then, in a  *)
(* statement of its own, installs the buffer; leaving it installs the      *)
(* saved stream again, the inner redirect first.                           *)
(***************************************************************************)
Buffer(t, block, stream) ==
    [owner |-> t,
     name |-> IF block = "exec"
              THEN (IF stream = "stdout" THEN "output_buffer" ELSE "error_buffer")
              ELSE (IF stream = "stdout" THEN "main_output_buffer" ELSE "main_error_buffer")]

CallCodeExecution ==
    \E t \in Threads, main_defined \in BOOLEAN :
        /\ executions[t].pc = "idle"
        /\ executions' = [executions EXCEPT ![t] = [NoExecution EXCEPT !.pc = "enter_stdout", !.block = "exec", !.main_defined = main_defined]]
        /\ UNCHANGED <<pc, inv, env, dotenv_file, attempts, response, thread, browser, process>>

\* redirect_stdout.__enter__, first statement: the stream sys.stdout names
\* is put on the list of old targets
EnterStdout ==
    \E t \in Threads :
        /\ executions[t].pc = "enter_stdout"
        /\ executions' = [executions EXCEPT ![t].old_stdout = <<process.stdout>>, ![t].pc = "install_stdout"]
        /\ UNCHANGED <<pc, inv, env, dotenv_file, attempts, response, thread, browser, process>>

\* redirect_stdout.__enter__, second statement: sys.stdout is set to the
\* buffer
InstallStdout ==
    \E t \in Threads :
        /\ executions[t].pc = "install_stdout"
        /\ executions' = [executions EXCEPT ![t].pc = "enter_stderr"]
        /\ process' = [process EXCEPT !.stdout = Buffer(t, executions[t].block, "stdout")]
        /\ UNCHANGED <<pc, inv, env, dotenv_file, attempts, response, thread, browser>>

\* redirect_stderr.__enter__, first statement
EnterStderr ==
    \E t \in Threads :
        /\ executions[t].pc = "enter_stderr"
        /\ executions' = [executions EXCEPT ![t].old_stderr = <<process.stderr>>, ![t].pc = "install_stderr"]
        /\ UNCHANGED <<pc, inv, env, dotenv_file, attempts, response, thread, browser, process>>

\* redirect_stderr.__enter__, second statement
InstallStderr ==
    \E t \in Threads :
        /\ executions[t].pc = "install_stderr"
        /\ executions' = [executions EXCEPT ![t].pc = "run"]
        /\ process' = [process EXCEPT !.stderr = Buffer(t, executions[t].block, "stderr")]
        /\ UNCHANGED <<pc, inv, env, dotenv_file, attempts, response, thread, browser>>

\* exec(...) or main() runs, and returns or raises
RunBlock ==
    \E t \in Threads, raised \in BOOLEAN :
        /\ executions[t].pc = "run"
        /\ executions' = [executions EXCEPT ![t].raised = raised, ![t].pc = "exit_stderr"]
        /\ UNCHANGED <<pc, inv, env, dotenv_file, attempts, response, thread, browser, process>>

ExitStderr ==
    \E t \in Threads :
        /\ executions[t].pc = "exit_stderr"
        /\ executions' = [executions EXCEPT ![t].old_stderr = <<>>, ![t].pc = "exit_stdout"]
        /\ process' = [process EXCEPT !.stderr = executions[t].old_stderr[1]]
        /\ UNCHANGED <<pc, inv, env, dotenv_file, attempts, response, thread, browser>>

\* after the redirects of exec are left, main() is called if the code
\* defined one and exec did not raise
ExitStdout ==
    \E t \in Threads :
        LET e == executions[t]
            calls_main == e.block = "exec" /\ ~e.raised /\ e.main_defined
        IN  /\ e.pc = "exit_stdout"
            /\ executions' = [executions EXCEPT ![t].old_stdout = <<>>,
                                                 ![t].block = IF calls_main THEN "main" ELSE e.block,
                                                 ![t].pc = IF calls_main THEN "enter_stdout" ELSE "return"]
            /\ process' = [process EXCEPT !.stdout = e.old_stdout[1]]
            /\ UNCHANGED <<pc, inv, env, dotenv_file, attempts, response, thread, browser>>

ReturnResult ==
    \E t \in Threads :
        /\ executions[t].pc = "return"
        /\ executions' = [executions EXCEPT ![t] = NoExecution]
        /\ UNCHANGED <<pc, inv, env, dotenv_file, attempts, response, thread, browser, process>>

StreamNext ==
    \/ CallCodeExecution
    \/ EnterStdout
    \/ InstallStdout
    \/ EnterStderr
    \/ InstallStderr
    \/ RunBlock
    \/ ExitStderr
    \/ ExitStdout
    \/ ReturnResult

StreamSpec == Init /\ [][StreamNext]_vars

(***************************************************************************)
(* Vocabulary of the properties.                                           *)
(***************************************************************************)
Ended == pc = "ended"

Returned == pc = "ended" /\ inv.out.outcome.kind = "return"

Result == inv.out.outcome.value

Trace == inv.out.trace

\* the tools of crypto_trade_agent
AuthenticatedTools == {"get_spot_balance", "place_spot_order", "get_spot_orders", "cancel_spot_order", "get_spot_open_orders", "get_spot_closed_orders", "get_spot_order_detail", "get_futures_balance", "get_savings_balance", "place_futures_order", "get_futures_open_orders", "get_futures_closed_orders", "get_futures_order_detail", "get_futures_positions", "cancel_futures_order", "get_savings_products", "get_savings_yield_by_asset", "redeem_savings_product", "purchase_savings_product"}

\* the string parameters a tool documents as required
RequiredStrings(tool) ==
    IF tool \in {"get_spot_balance", "get_spot_orders", "get_spot_open_orders", "get_spot_closed_orders", "get_futures_balance", "get_savings_balance", "get_futures_open_orders", "get_futures_closed_orders", "get_futures_positions", "get_savings_products"} THEN {"exchange_name"}
    ELSE IF tool \in {"place_spot_order", "place_futures_order"} THEN {"symbol", "side", "exchange_name"}
    ELSE IF tool \in {"cancel_spot_order", "cancel_futures_order", "get_spot_order_detail", "get_futures_order_detail"} THEN {"order_id", "symbol", "exchange_name"}
    ELSE IF tool \in {"get_savings_yield_by_asset", "redeem_savings_product", "purchase_savings_product"} THEN {"asset", "exchange_name"}
    ELSE IF tool \in {"get_ticker_data", "get_orderbook_data", "get_trades_data", "get_funding_rate"} THEN {"symbol", "exchange_name"}
    ELSE IF tool \in {"get_kline_data", "get_open_interest_data"} THEN {"symbol", "timeframe", "exchange_name"}
    ELSE IF tool = "search_market_news" THEN {"keyword"}
    ELSE IF tool = "code_execution_python" THEN {"code"}
    ELSE IF tool = "google_search_playwright" THEN {"query", "lang"}
    ELSE IF tool = "quick_google_search" THEN {"query"}
    ELSE IF tool = "search_and_extract_content" THEN {"query"}
    ELSE IF tool = "web_scrapy_playwright" THEN {"url"}
    ELSE {}

\* C1: every tool is total: whatever the arguments, the external service and
\* the executed user code do, an invocation that ends has returned a result
\* mapping; no exception leaves the tool function.
C1_NoExceptionEscapes == Ended => inv.out.outcome.kind = "return"

\* C1, the failing case: get_futures_open_orders with the empty symbol its
\* docstring allows ends by raising TypeError.
C1_EmptySymbolRaises ==
    /\ Ended
    /\ inv.tool = "get_futures_open_orders"
    /\ inv.args.symbol = <<>>
    /\ inv.args.exchange_name = BINANCE
    /\ inv.out.outcome = [kind |-> "raise", exc |-> "TypeError"]

\* C2: every returned result carries exactly one of the keys data and
\* error_message, never both and never neither.
C2_ExactlyOneOfDataAndError ==
    Returned => (("data" \in DOMAIN Result) <=> ("error_message" \notin DOMAIN Result))

\* C2, the failing case: the batch search whose every keyword failed returns
\* both keys.
C2_BatchErrorCarriesBoth ==
    /\ Returned
    /\ inv.tool = "batch_search_market_news"
    /\ Result.status = "error"
    /\ {"data", "error_message"} \subseteq DOMAIN Result
    /\ Trace # <<>>

\* C3: every returned result carries a non-empty metadata mapping, also for a
\* validation failure and for an upstream or catch-all failure.
C3_MetadataAlwaysPresent ==
    Returned => ("metadata" \in DOMAIN Result /\ DOMAIN Result.metadata # {})

\* C3, the failing case: get_ticker_data with an empty symbol returns without
\* metadata.
C3_ValidationFailureWithoutMetadata ==
    /\ Returned
    /\ inv.tool = "get_ticker_data"
    /\ inv.args.symbol = <<>>
    /\ Result.status = "error"
    /\ "metadata" \notin DOMAIN Result

\* C4: a call in which a required string parameter is empty or whitespace-only
\* returns status=error and makes no external call.
C4_BlankRequiredStringRejected ==
    (Ended /\ \E a \in RequiredStrings(inv.tool) : Blank(inv.args[a]))
        => (Returned /\ Result.status = "error" /\ Trace = <<>>)

\* C4, the failing case: get_trades_data with an empty symbol builds the handle
\* and asks the exchange for trades.
C4_BlankSymbolReachesExchange ==
    /\ Returned
    /\ inv.tool = "get_trades_data"
    /\ inv.args.symbol = <<>>
    /\ inv.args.exchange_name = BINANCE
    /\ Trace = <<"exchange_class", "fetch_trades">>

OrderCreations == {"create_limit_order", "create_market_order"}

\* C5: place_spot_order with a symbol that lacks the '/' delimiter returns
\* status=error and issues no order-creation call, whatever the other
\* arguments and the credentials are.  (The claim also wants the message to
\* name the BASE/QUOTE format; the part stated here is the one every such
\* call must meet whatever else is wrong with it.)
C5_SymbolWithoutSlashRejected ==
    (Ended /\ inv.tool = "place_spot_order" /\ ~Contains("/", inv.args.symbol))
        => /\ Returned
           /\ Result.status = "error"
           /\ \A i \in DOMAIN Trace : Trace[i] \notin OrderCreations

\* C5, the failing case: the symbol BU reaches create_limit_order.
C5_OrderPlacedWithoutSlash ==
    /\ Returned
    /\ inv.tool = "place_spot_order"
    /\ inv.args.symbol = <<"B","U">>
    /\ Result.status = "success"
    /\ Trace = <<"exchange_class", "load_markets", "create_limit_order">>

WriteTools == {"place_spot_order", "place_futures_order", "cancel_spot_order", "cancel_futures_order", "purchase_savings_product", "redeem_savings_product"}

\* the methods of the exchange handle that change something at the exchange
WriteOps == OrderCreations \cup {"cancel_order", "sapi_post_simple_earn_flexible_redeem", "sapi_post_simple_earn_flexible_subscribe", "private_post_finance_savings_purchase_redempt"}

RECURSIVE WriteCount(_)
WriteCount(trace) ==
    IF trace = <<>> THEN 0
    ELSE (IF Head(trace) \in WriteOps THEN 1 ELSE 0) + WriteCount(Tail(trace))

\* the ways the exchange makes a write raise
WriteFailures == {"Exception", "ValueError", "AttributeError"}

\* C6: within one invocation of a write tool the external write is issued at
\* most once, whatever its outcome; a write that raised ends the call with
\* status=error and is not tried again.
C6_WriteIssuedAtMostOnce ==
    (Ended /\ inv.tool \in WriteTools)
        => /\ WriteCount(Trace) <= 1
           /\ (WriteCount(Trace) = 1 /\ inv.ext.op \in WriteFailures) => (Returned /\ Result.status = "error")

\* C6, its case: a write tool issued its write, the exchange made it raise,
\* and the call ended with status=error after that single write.
C6_FailedWriteNotRepeated ==
    /\ Returned
    /\ inv.tool = "place_futures_order"
    /\ inv.ext.op = "Exception"
    /\ WriteCount(Trace) = 1
    /\ Trace[Len(Trace)] = "create_limit_order"
    /\ Result.status = "error"

\* the exchange a call of an authenticated tool targets
TargetExchange == lower(strip(inv.args.exchange_name))

\* the variables os.environ holds with a value that is not empty
Held(environ) == {name \in DOMAIN environ : environ[name] # ""}

\* the environment variables an exchange needs: key and secret, and the
\* passphrase for OKX
RequiredCredentials(exchange) ==
    {upper(exchange) \o API_KEY_SUFFIX, upper(exchange) \o SECRET_SUFFIX} \cup (IF exchange = OKX THEN {upper(exchange) \o PASSWORD_SUFFIX} ELSE {})

\* C7: an authenticated tool called while a credential its exchange requires
\* is absent from the environment returns status=error, constructs no exchange
\* handle and makes no external request.  (Stated for the calls that end by
\* returning; the claim also wants the message to describe the missing
\* setting.)
C7_MissingCredentialRejected ==
    (Ended /\ inv.tool \in AuthenticatedTools /\ TargetExchange \in SUPPORTED_EXCHANGES /\ ~(RequiredCredentials(TargetExchange) \subseteq Held(env)))
        => /\ Trace = <<>>
           /\ Returned => Result.status = "error"

\* C7, the failing case: OKX key and secret set, passphrase absent, and the
\* balance is fetched through a handle built without it.
C7_HandleBuiltWithoutPassphrase ==
    /\ Returned
    /\ inv.tool = "get_spot_balance"
    /\ TargetExchange = OKX
    /\ upper(OKX) \o PASSWORD_SUFFIX \notin Held(env)
    /\ Trace = <<"exchange_class", "load_markets", "fetch_balance">>
    /\ Result.status = "success"

BoundedTools == {"get_orderbook_data", "get_funding_rate", "get_trades_data", "get_latest_market_news", "search_market_news", "batch_search_market_news", "get_macro_data", "google_search_playwright", "search_and_extract_content"}

\* the bounded numeric parameter of a tool and its documented range
BoundedParam(tool) ==
    IF tool \in {"get_orderbook_data", "get_funding_rate", "get_trades_data", "get_macro_data"} THEN [name |-> "limit", min |-> 1, max |-> 100]
    ELSE IF tool = "get_latest_market_news" THEN [name |-> "limit", min |-> 1, max |-> 1000]
    ELSE IF tool = "search_market_news" THEN [name |-> "page_size", min |-> 1, max |-> 100]
    ELSE IF tool = "batch_search_market_news" THEN [name |-> "page_size_per_keyword", min |-> 1, max |-> 100]
    ELSE IF tool = "google_search_playwright" THEN [name |-> "num_results", min |-> 1, max |-> 100]
    ELSE [name |-> "num_results", min |-> 1, max |-> 10]

\* the other arguments of the ended call are well-formed and the external
\* target answered successfully
AnsweredSuccessfully ==
    IF inv.tool \in {"get_orderbook_data", "get_funding_rate", "get_trades_data"}
    THEN inv.args.symbol = <<"B","/","U",":","U">> /\ inv.args.exchange_name \in {BINANCE, OKX} /\ inv.ext.op = "ok" /\ inv.ext.has
    ELSE IF inv.tool = "get_latest_market_news"
    THEN response.received /\ response.has_tbody /\ all_times_parse(response.tbody)
    ELSE IF inv.tool = "search_market_news"
    THEN ~Blank(inv.args.keyword) /\ inv.ext.kind = "ok" /\ all_times_parse(inv.ext.list)
    ELSE IF inv.tool = "batch_search_market_news"
    THEN valid_keywords_of(inv.args.keywords) # <<>> /\ \A i \in DOMAIN inv.ext.answers : inv.ext.answers[i].kind = "ok"
    ELSE IF inv.tool = "get_macro_data"
    THEN inv.ext.kind = "ok" /\ all_have_data(inv.ext.list)
    ELSE IF inv.tool = "google_search_playwright"
    THEN ~Blank(inv.args.query) /\ ~Blank(inv.args.lang) /\ inv.ext.kind = "success"
    ELSE ~Blank(inv.args.query) /\ inv.ext.kind = "success"

\* C8: for every tool with a bounded numeric parameter, a value outside the
\* documented range yields status=error, and the minimum and the maximum of
\* the range yield status=success when the external target answers
\* successfully.
C8_RangeEnforcedAtBothEnds ==
    (Ended /\ inv.tool \in BoundedTools)
        => LET b == BoundedParam(inv.tool)
               v == inv.args[b.name]
           IN  /\ (v < b.min \/ v > b.max) => (Returned /\ Result.status = "error")
               /\ (v \in {b.min, b.max} /\ AnsweredSuccessfully) => (Returned /\ Result.status = "success")

\* C8, the failing case: get_macro_data with limit 0 answers status=success
\* for 50 entries.
C8_OutOfRangeLimitCoerced ==
    /\ Returned
    /\ inv.tool = "get_macro_data"
    /\ inv.args.limit = 0
    /\ Result.status = "success"
    /\ Result.metadata.requested_limit = 50

\* the states in which get_market_data is running
Polling == pc \in {"post", "sleep"}

\* C9: every tool invocation eventually hands a result to the calling agent,
\* whatever the external services do, also when every request to the
\* news-flash endpoint raises.  (The shape of a handed-back result is the
\* matter of C1, C2 and C3; stated here is that one is handed back at all.)
C9_EveryInvocationHandsBack == (pc # "idle") ~> Ended

\* C9, the failing case: get_latest_market_news is still polling after more
\* failed requests than the model counts.
C9_StillPollingAfterFailures ==
    /\ pc = "sleep"
    /\ inv.tool = "get_latest_market_news"
    /\ attempts = MaxAttempts
    /\ ~response.received

\* the external calls of a running get_market_data so far: a request, then
\* sleep and request in alternation
Alternates(trace) ==
    \A i \in 1..Len(trace) : trace[i] = IF i % 2 = 1 THEN "post_news_flash" ELSE "sleep"

\* C10: get_market_data never gives up on a failed request.  After an attempt
\* that raised it sleeps the fixed backoff and sends the same request again,
\* however many attempts have failed; it leaves the loop only with the
\* parsed body of an attempt that succeeded; and once an attempt succeeded
\* it does hand back.  So it terminates exactly when some attempt succeeds.
\* The history is exact: every request sent is the same request, every
\* failed attempt is followed by one backoff of BACKOFF_SECONDS before the
\* next request, the backoff after the last counted attempt included, and
\* the loop is left right after a request, with one backoff less than
\* requests.
C10_RetriesUntilSuccess ==
    /\ [][Polling => (Polling' \/ (pc' = "index" /\ response'.received))]_vars
    /\ [][(pc = "post" /\ pc' = "sleep") => ~response'.received]_vars
    /\ [][pc = "sleep" => (pc' = "post" /\ attempts' = attempts)]_vars
    /\ [][(pc = "sleep" /\ Len(inv.slept) < Len(inv.sent))
            => (inv'.slept = Append(inv.slept, BACKOFF_SECONDS) /\ inv'.out.trace = Append(inv.out.trace, "sleep") /\ inv'.sent = inv.sent)]_vars
    /\ [][(pc = "post" /\ attempts < MaxAttempts)
            => (inv'.sent = Append(inv.sent, news_request(<<>>)) /\ inv'.out.trace = Append(inv.out.trace, "post_news_flash") /\ inv'.slept = inv.slept)]_vars
    /\ [](pc \in {"post", "sleep", "index", "shape"} =>
            /\ inv.tool = "get_latest_market_news"
            /\ Alternates(Trace)
            /\ Len(Trace) = Len(inv.sent) + Len(inv.slept)
            /\ Len(inv.sent) = attempts
            /\ \A i \in 1..Len(inv.sent) : inv.sent[i] = news_request(<<>>)
            /\ \A i \in 1..Len(inv.slept) : inv.slept[i] = BACKOFF_SECONDS
            /\ (pc = "post" => Len(inv.slept) = Len(inv.sent))
            /\ (pc = "sleep" => (Len(inv.sent) = Len(inv.slept) + 1 \/ (attempts = MaxAttempts /\ Len(inv.sent) = Len(inv.slept))))
            /\ (pc \in {"index", "shape"} => Len(inv.sent) = Len(inv.slept) + 1)
            /\ (pc \in {"index", "shape"} <=> response.received))
    /\ (pc = "sleep") ~> (pc = "post")
    /\ (pc = "index") ~> (pc = "shape")

\* C10, the case: the loop has failed MaxAttempts requests, slept the
\* backoff after each of them, the last one included, and is about to send
\* the request again.
C10_BackoffAfterEveryFailure ==
    /\ pc = "post"
    /\ ~response.received
    /\ attempts = MaxAttempts
    /\ Len(inv.sent) = MaxAttempts
    /\ Len(inv.slept) = MaxAttempts
    /\ Trace[Len(Trace)] = "sleep"
    /\ Len(Trace) = 2 * MaxAttempts

\* the invocation is one of a browser tool whose wait for the worker expired
TimedOut ==
    /\ inv.tool \in {"web_scrapy_playwright", "google_search_playwright", "quick_google_search"}
    /\ inv.out = ToolReturn(inv, TimeoutAnswer)
    /\ inv.out.trace # <<>>

\* C11: when the 60-second wait expires before the browser worker has
\* completed, the tool answers status=error with the timeout message, and
\* its return to the caller follows from the timeout itself: from the moment
\* the wait has expired the caller can leave the pool and return, whether or
\* not the worker thread has completed.
C11_ReturnFollowsFromTimeout ==
    pc = "timed_out"
        => /\ TimedOut
           /\ inv.out.outcome.value.status = "error"
           /\ ENABLED ShutdownPool

\* C11, the failing case: the wait has expired, the worker is still loading
\* the page in the launched browser, and the caller cannot return.
C11_CallerHeldByRunningWorker ==
    /\ pc = "timed_out"
    /\ thread.pc = "page"
    /\ browser.launched
    /\ ~ENABLED ShutdownPool

\* C12: whenever a browser tool returns its timeout error, the browser its
\* worker thread launched has been closed by that thread.
C12_BrowserClosedBeforeTimeoutReturn ==
    (Ended /\ TimedOut /\ browser.launched) => browser.close_called

\* C12, the failing case: the timeout error is returned for a page scrape
\* whose worker launched a browser, failed in context.close() and so never
\* called browser.close().
C12_TimeoutReturnedWithBrowserOpen ==
    /\ Ended
    /\ TimedOut
    /\ inv.tool = "web_scrapy_playwright"
    /\ browser.launched
    /\ browser.context = "open"
    /\ ~browser.close_called

\* C13: a worker function that launched a browser has called browser.close()
\* by the time it returns or raises, on every path.
C13_BrowserCloseAlwaysCalled ==
    (thread.pc = "done" /\ browser.launched) => browser.close_called

\* C13, the failing case: the search worker launched the browser, new_context()
\* raised outside the try block, and the function raised without clean-up.
C13_SetupFailureSkipsCleanup ==
    /\ thread.pc = "done"
    /\ thread.fn = "_playwright_google_search_internal"
    /\ thread.raising
    /\ browser.launched
    /\ browser.context = "none"
    /\ ~browser.close_called

\* the valid keywords of a batch search, and whether the call of
\* search_market_news for the i-th one returned success
BatchKeywords == valid_keywords_of(inv.args.keywords)

KeywordSucceeded(i) == inv.returned[i].status = "success"

SucceededCount == Cardinality({i \in 1..Len(BatchKeywords) : KeywordSucceeded(i)})

\* the aggregation C14 states, of a call that has ended
BatchAggregated ==
    /\ Returned
    /\ Result.status = "success" <=> SucceededCount = Len(BatchKeywords)
    /\ Result.status = "partial_success" <=> (0 < SucceededCount /\ SucceededCount < Len(BatchKeywords))
    /\ Result.status = "error" <=> SucceededCount = 0
    /\ "data" \in DOMAIN Result
    /\ "data" \in DOMAIN Result =>
        /\ Len(Result.data.results) = Len(BatchKeywords)
        /\ \A i \in 1..Len(BatchKeywords) :
            /\ Result.data.results[i].keyword = BatchKeywords[i]
            /\ Result.data.results[i].status = IF KeywordSucceeded(i) THEN "success" ELSE "error"
        /\ Result.data.summary.total_keywords = Len(BatchKeywords)
        /\ Result.data.summary.successful_searches = SucceededCount
        /\ Result.data.summary.failed_searches = Len(BatchKeywords) - SucceededCount
        /\ Result.data.summary.successful_searches + Result.data.summary.failed_searches = Len(Result.data.results)

\* C14 as the specification states it, of every call: the overall status is
\* success iff every valid keyword's search succeeded, partial_success iff
\* some but not all did, error iff none did; data.results has one entry per
\* valid keyword, in input order, with that keyword's own status; and the
\* counts of the summary add up to the keywords.
C14_EveryBatchAggregates ==
    (Ended /\ inv.tool = "batch_search_market_news") => BatchAggregated

\* C14, amended: batch_search_market_news called with at least one valid
\* keyword aggregates the outcomes as stated, every call of
\* search_market_news having been made for its keyword with the page size
\* of the batch; called with none it returns status=error with a message
\* and no data and searches nothing.
C14_BatchAggregatesPerKeyword ==
    (Ended /\ inv.tool = "batch_search_market_news")
        => IF BatchKeywords # <<>>
           THEN /\ BatchAggregated
                /\ Len(inv.returned) = Len(BatchKeywords)
                /\ inv.searched = BatchKeywords
           ELSE /\ Returned
                /\ Result.status = "error"
                /\ DOMAIN Result = {"status", "error_message"}
                /\ Trace = <<>>
                /\ inv.searched = <<>>

\* C14, the case: three keywords, the search of the second one failed.
C14_OneOfThreeFailed ==
    /\ Returned
    /\ inv.tool = "batch_search_market_news"
    /\ Len(BatchKeywords) = 3
    /\ KeywordSucceeded(1) /\ ~KeywordSucceeded(2) /\ KeywordSucceeded(3)
    /\ Result.status = "partial_success"
    /\ Result.data.summary.successful_searches = 2
    /\ Result.data.summary.failed_searches = 1

\* the tools that take a contract symbol
ContractTools == {"place_futures_order", "get_futures_open_orders", "get_futures_closed_orders", "get_futures_order_detail", "cancel_futures_order", "get_futures_positions", "get_funding_rate", "get_open_interest_data"}

\* C15: every tool that takes a contract symbol rejects a symbol that is not
\* blank and lacks the ':' of the settlement currency: it returns
\* status=error and makes no external call.
C15_SymbolWithoutSettleRejected ==
    (Ended /\ inv.tool \in ContractTools /\ ~Blank(inv.args.symbol) /\ ~Contains(":", inv.args.symbol))
        => (Returned /\ Result.status = "error" /\ Trace = <<>>)

\* C15, the failing case: get_futures_positions hands the spot symbol B/U to
\* fetch_positions and answers success.
C15_PositionsFetchedForSpotSymbol ==
    /\ Returned
    /\ inv.tool = "get_futures_positions"
    /\ inv.args.symbol = <<"B","/","U">>
    /\ Result.status = "success"
    /\ Trace = <<"exchange_class", "load_markets", "fetch_positions">>

\* the environment holds the credentials the exchange of the call requires
HasCredentials == RequiredCredentials(TargetExchange) \subseteq Held(env)

\* C16: get_futures_open_orders and get_futures_closed_orders called with the
\* empty symbol and a supported exchange return a result, and with the
\* credentials set and the exchange answering they fetch the orders.
C16_EmptySymbolListsAllOrders ==
    (Ended /\ inv.tool \in {"get_futures_open_orders", "get_futures_closed_orders"} /\ inv.args.symbol = <<>> /\ TargetExchange \in SUPPORTED_EXCHANGES)
        => /\ Returned
           /\ (HasCredentials /\ inv.ext = ExtOk)
                => /\ Result.status = "success"
                   /\ \E i \in 1..Len(Trace) : Trace[i] \in {"fetch_open_orders", "fetch_closed_orders"}

\* C16, the failing case: get_futures_closed_orders("", "binance") ends by
\* raising TypeError, having fetched nothing.
C16_ClosedOrdersOfAllPairsRaise ==
    /\ Ended
    /\ inv.tool = "get_futures_closed_orders"
    /\ inv.args.symbol = <<>>
    /\ inv.args.exchange_name = BINANCE
    /\ HasCredentials
    /\ inv.out = Raised("TypeError", <<>>)

\* an order call whose symbol, side, amount and exchange are valid
ValidOrderArguments ==
    /\ inv.args.amount > 0
    /\ TargetExchange \in SUPPORTED_EXCHANGES
    /\ IF inv.tool = "place_spot_order"
       THEN Contains("/", inv.args.symbol) /\ ~Contains(":", inv.args.symbol) /\ lower(strip(inv.args.side)) \in {<<"b","u","y">>, <<"s","e","l","l">>}
       ELSE Contains(":", inv.args.symbol) /\ lower(strip(inv.args.side)) \in FuturesSides

\* C17: place_spot_order and place_futures_order called with valid symbol,
\* side, amount and exchange and price 0 place a market order: the call is
\* not rejected, and with the credentials set and the exchange answering it
\* issues create_market_order and returns success.
C17_PriceZeroPlacesMarketOrder ==
    (Ended /\ inv.tool \in {"place_spot_order", "place_futures_order"} /\ inv.args.price = 0 /\ ValidOrderArguments /\ HasCredentials /\ inv.ext = ExtOk)
        => /\ Returned
           /\ Result.status = "success"
           /\ \E i \in 1..Len(Trace) : Trace[i] = "create_market_order"

\* C17, the failing case: a spot market buy is rejected before the exchange
\* is touched.
C17_MarketOrderRejected ==
    /\ Returned
    /\ inv.tool = "place_spot_order"
    /\ inv.args.price = 0
    /\ ValidOrderArguments
    /\ HasCredentials
    /\ Result.status = "error"
    /\ Trace = <<>>

\* C18: a tool that takes an exchange name, called with a name that is not
\* binance or okx after trimming and lower-casing, returns status=error and
\* makes no external call.
C18_UnsupportedExchangeRejected ==
    (Ended /\ "exchange_name" \in DOMAIN inv.args /\ TargetExchange \notin SUPPORTED_EXCHANGES)
        => (Returned /\ Result.status = "error" /\ Trace = <<>>)

\* C18, the failing case: get_futures_open_orders("", "ftx") raises TypeError
\* on the empty symbol before the exchange name is looked at.
C18_UnsupportedExchangeCallRaises ==
    /\ Ended
    /\ inv.tool = "get_futures_open_orders"
    /\ inv.args.exchange_name = FTX
    /\ inv.out.outcome.kind = "raise"

\* a percentage that is the number 0
IsZero(q) == ~q.raised /\ q.num = 0 /\ q.den # 0

\* the call got its rows from the exchange
RowsFetched ==
    /\ \A a \in RequiredStrings(inv.tool) : ~Blank(inv.args[a])
    /\ TargetExchange \in MARKET_SUPPORTED_EXCHANGES
    /\ inv.ext.has
    /\ inv.ext.op = "ok"

\* C19: the percentage fields are guarded against a zero baseline.  When the
\* open of the first candle is 0, get_kline_data returns success with
\* summary.price_change_percent 0; when the first open-interest amount is 0,
\* get_open_interest_data returns success, with summary.oi_change_percentage
\* 0 wherever the summary has that field.
C19_ZeroBaselineGivesZeroPercent ==
    /\ (Ended /\ inv.tool = "get_kline_data" /\ RowsFetched /\ inv.ext.candles # <<>> /\ inv.ext.candles[1].open = 0)
        => (Returned /\ Result.status = "success" /\ IsZero(Result.summary.price_change_percent))
    /\ (Ended /\ inv.tool = "get_open_interest_data" /\ RowsFetched /\ inv.ext.oi # <<>> /\ inv.ext.oi[1] = <<0>>)
        => /\ Returned
           /\ Result.status = "success"
           /\ "oi_change_percentage" \in DOMAIN Result.summary => IsZero(Result.summary.oi_change_percentage)

\* C19, the failing case: the open interest starts at 0 and its last entry
\* has no amount; the subtraction raises and the call answers status=error.
C19_MissingLastAmountFailsCall ==
    /\ Returned
    /\ inv.tool = "get_open_interest_data"
    /\ RowsFetched
    /\ inv.ext.oi = <<<<0>>, <<50>>, NoAmount>>
    /\ Result.status = "error"

\* C20: a tool invocation leaves no process-wide state behind: no step of
\* any tool changes the module search path, the standard streams or
\* os.environ, so after the invocation they are what they were before it.
C20_InvocationLeavesProcessAsFound == [][process' = process /\ env' = env]_vars

\* C20, the failing case: a search_and_extract_content call whose search
\* succeeded has ended, and sys.path holds an entry it did not hold before
\* the call.
C20_SearchPathGrewWithEachCall ==
    /\ Returned
    /\ inv.tool = "search_and_extract_content"
    /\ Result.status = "success"
    /\ process.sys_path = <<"repository_root">>
    /\ process.stdout = AtImport.stdout
    /\ process.stderr = AtImport.stderr

\* the program of a code_execution_python call ran and the call returned success
CodeRan == Returned /\ inv.tool = "code_execution_python" /\ Result.status = "success"

\* C21: when the submitted code binds the top-level name `result` and no
\* main() return value exists, data.result of the successful call is the
\* value the code bound.
C21_ResultVariableIsReturned ==
    (CodeRan /\ inv.ext.main \in {"absent", "none"} /\ inv.ext.result # None)
        => Result.data.result = inv.ext.result

\* C21, the failing case: the code bound result = 42 and defines no main();
\* the call succeeded with data.result None.
C21_AssignedResultIsLost ==
    /\ CodeRan
    /\ inv.ext.main = "absent"
    /\ inv.ext.result = <<"4","2">>
    /\ Result.data.result = None

\* the positions of the trace at which main() ran
MainRuns == {i \in 1..Len(Trace) : Trace[i] = "main"}

\* C24: in one code_execution_python invocation main() runs at most once,
\* and only after the top-level code has finished without raising.
C24_MainRunsOnceAfterTopLevel ==
    (Ended /\ inv.tool = "code_execution_python")
        => /\ Cardinality(MainRuns) <= 1
           /\ \A i \in MainRuns : \E j \in 1..(i - 1) : Trace[j] = "exec_returns"

\* C24, the failing case: a program that calls main() under the __name__
\* guard has had its main() run twice, once inside exec and once by the tool.
C24_GuardedMainRanTwice ==
    /\ CodeRan
    /\ inv.ext.calls_main
    /\ Trace = <<"exec", "main", "exec_returns", "main">>

\* the delays in the calls made so far
Delays(trace) == Cardinality({k \in 1..Len(trace) : trace[k] = "sleep"})

\* C22: batch_search_market_news issues its searches one after another in
\* the order of the valid keywords.  Every request is for the next valid
\* keyword; the request for keyword i+1 is sent only when the searches of
\* the i keywords before it have returned and i delays have elapsed, the
\* last of them right before the request; and a call that has ended has
\* searched every valid keyword, with n-1 delays for n keywords and none
\* after the last search.
C22_SearchesSequentialWithDelays ==
    /\ [][(pc = "batch_request" /\ pc' = "batch_answer")
            => /\ inv'.searched = Append(inv.searched, BatchKeywords[Len(inv.searched) + 1])
               /\ Len(inv.returned) = Len(inv.searched)
               /\ Len(inv.ext.answers) = Len(inv.searched)
               /\ Delays(Trace) = Len(inv.searched)
               /\ inv.searched # <<>> => Trace[Len(Trace)] = "sleep"]_vars
    /\ [][(pc = "batch_answer" /\ pc' = "batch_request") => FALSE]_vars
    /\ []((inv.tool = "batch_search_market_news" /\ BatchKeywords # <<>>)
            => /\ inv.searched = SubSeq(BatchKeywords, 1, Len(inv.searched))
               /\ Len(inv.returned) \in {Len(inv.searched) - 1, Len(inv.searched)}
               /\ \A k \in 1..Len(Trace) : Trace[k] = IF k % 2 = 1 THEN "post_search" ELSE "sleep"
               /\ Ended => /\ inv.searched = BatchKeywords
                            /\ Len(Trace) = 2 * Len(BatchKeywords) - 1
                            /\ Delays(Trace) = Len(BatchKeywords) - 1
                            /\ Trace[Len(Trace)] = "post_search")

\* C22, its case: a batch of three valid keywords, two of them different,
\* the second of which failed, has made three searches in the order of the
\* keywords and two delays.
C22_ThreeSearchesTwoDelays ==
    /\ Returned
    /\ inv.tool = "batch_search_market_news"
    /\ inv.args.keywords = <<<<"b","t","c">>, <<" ","e","t","f"," ">>, <<"b","t","c">>>>
    /\ inv.searched = <<<<"b","t","c">>, <<"e","t","f">>, <<"b","t","c">>>>
    /\ ~KeywordSucceeded(2)
    /\ Trace = <<"post_search", "sleep", "post_search", "sleep", "post_search">>

\* C23: normalization is idempotent: applied to its own result, the symbol
\* normalizer, the exchange and asset name normalizer and the URL
\* normalizer each give that result again.
C23_NormalizationIdempotent ==
    (Returned /\ inv.tool = "normalize")
        => /\ normalize_symbol(Result.symbol) = Result.symbol
           /\ normalize_name(Result.name) = Result.name
           /\ normalize_url(Result.url) = Result.url

\* C23, its case: a string with blanks around it, letters whose case
\* mappings change the length and depend on the position, and no scheme
\* has been normalized, and each normalizer changed it.
C23_PaddedMixedCaseNormalized ==
    /\ Returned
    /\ inv.tool = "normalize"
    /\ inv.args.s = <<" ", "ß", "U+03A3", " ">>
    /\ Result.symbol = <<"S", "S", "U+03A3">>
    /\ Result.name = <<"ß", "U+03C2">>
    /\ Result.url = HTTPS_PREFIX \o <<"ß", "U+03A3">>

\* every call of code_execution_python has returned
NoExecutionRunning == \A t \in Threads : executions[t].pc = "idle"

\* C25: once every invocation of code_execution_python has returned,
\* overlapping ones on different threads included, sys.stdout and
\* sys.stderr are the streams installed before the first invocation.
C25_StreamsRestoredAfterAllReturn ==
    NoExecutionRunning => (process.stdout = AtImport.stdout /\ process.stderr = AtImport.stderr)

\* C25, the failing case: both threads are back from their calls and
\* sys.stdout is still the capture buffer of the call on thread 1.
C25_CaptureBufferLeftInstalled ==
    /\ NoExecutionRunning
    /\ process.stdout = Buffer(1, "exec", "stdout")

\* place_futures_order handed an order to the exchange
FuturesOrderSent == Ended /\ inv.tool = "place_futures_order" /\ "sent" \in DOMAIN inv.out

\* C26: every order place_futures_order hands to create_limit_order has a
\* contract count greater than 0 and a price greater than 0.
C26_SubmittedCountAndPricePositive ==
    FuturesOrderSent => (inv.out.sent.amount.units > 0 /\ inv.out.sent.price.units > 0)

\* C26, the failing case: 0.3 coins on a market whose contract is 1 coin and
\* whose amount precision is 1 passed validation and was submitted as an
\* order of 0 contracts.
C26_ZeroContractsSubmitted ==
    /\ FuturesOrderSent
    /\ inv.args.amount = 300
    /\ inv.ext.market = MarketOne
    /\ inv.out.sent.amount = [units |-> 0, decimals |-> 0]
    /\ Trace[Len(Trace)] = "create_limit_order"

\* the order side and the position side the claim gives for a side argument
SideTable(side) ==
    IF side = <<"o","p","e","n","_","l","o","n","g">> THEN [order |-> "buy", position |-> "long"]
    ELSE IF side = <<"o","p","e","n","_","s","h","o","r","t">> THEN [order |-> "sell", position |-> "short"]
    ELSE IF side = <<"c","l","o","s","e","_","l","o","n","g">> THEN [order |-> "sell", position |-> "long"]
    ELSE IF side = <<"c","l","o","s","e","_","s","h","o","r","t">> THEN [order |-> "buy", position |-> "short"]
    ELSE [order |-> "", position |-> "None"]

\* the position side as the exchange spells it: capitals for binance
Spelled(position, exchange) ==
    IF exchange # BINANCE THEN position
    ELSE IF position = "long" THEN "LONG"
    ELSE IF position = "short" THEN "SHORT"
    ELSE position

\* C27: an order that place_futures_order submits comes from one of the
\* four sides and carries the order side and position side of the table:
\* open_long buy/long, open_short sell/short, close_long sell/long,
\* close_short buy/short, spelled LONG/SHORT for binance and long/short for
\* okx; the order side is never empty.
C27_SideMappedToOrderAndPosition ==
    FuturesOrderSent
        => LET side == lower(strip(inv.args.side))
           IN  /\ side \in FuturesSides
               /\ inv.out.sent.side = SideTable(side).order
               /\ inv.out.sent.positionSide = Spelled(SideTable(side).position, TargetExchange)
               /\ inv.out.sent.side # ""

\* C27, its case: close_long on okx was submitted as a sell of the long
\* position.
C27_CloseLongSoldOnOkx ==
    /\ FuturesOrderSent
    /\ inv.args.side = <<"c","l","o","s","e","_","l","o","n","g">>
    /\ TargetExchange = OKX
    /\ inv.out.sent.side = "sell"
    /\ inv.out.sent.positionSide = "long"

\* the search that the search_and_extract_content call of `inv` made, and
\* what it answered
ExtractingCall == Ended /\ inv.tool = "search_and_extract_content" /\ ~Blank(inv.args.query) /\ inv.args.num_results \in 1..10

SearchAnswer == google_search_playwright(strip(inv.args.query), inv.args.num_results, ZH_CN, inv.ext).outcome.value

\* the pages the call fetched
PagesFetched == Cardinality({k \in 1..Len(Trace) : Trace[k] = "get_page"})

    /\ Result.status = "success"
    /\ inv.fetches = <<"get_raised", "ok">>
    /\ Len(Result.data.results) = 2
    /\ ~Result.data.results[1].content_available
    /\ Result.data.results[2].content_available
    /\ Result.metadata.results_with_content = 1

\* the result list after the first k containers of the page
ResultsAfter(k) == collect_results(SubSeq(inv.ext.containers, 1, k), <<>>, inv.args.num_results)

\* C29: after every iteration of the container loop the result list has at
\* most num_results entries, pairwise distinct URLs and positions 1, 2, ...
\* in order; total_results is the length of the list returned.
C29_ResultListInvariant ==
    (Returned /\ inv.tool = "_playwright_google_search_internal")
        => /\ \A k \in 0..Len(inv.ext.containers) :
                LET search_results == ResultsAfter(k)
                IN  /\ Len(search_results) <= inv.args.num_results
                    /\ \A i, j \in 1..Len(search_results) : i # j => search_results[i].url # search_results[j].url
                    /\ \A i \in 1..Len(search_results) : search_results[i].position = i
           /\ Result.results = ResultsAfter(Len(inv.ext.containers))
           /\ Result.total_results = Len(Result.results)

\* C29, its case: a page with a result, a second container for the same
\* link, a container that raises and another result gave two results.
C29_DuplicateAndRaisingSkipped ==
    /\ Returned
    /\ inv.tool = "_playwright_google_search_internal"
    /\ Len(inv.ext.containers) = 4
    /\ inv.ext.containers[1].url = inv.ext.containers[2].url
    /\ inv.ext.containers[1].title # inv.ext.containers[2].title
    /\ inv.ext.containers[3].raises
    /\ Result.total_results = 2
    /\ Result.results[2].url = <<"u","3">>
    /\ Result.results[2].position = 2

\* a get_orderbook_data call that returned an order book
BookReturned == Returned /\ inv.tool = "get_orderbook_data" /\ Result.status = "success"

\* C30: in a successful get_orderbook_data result the summary describes the
\* data beside it: sum_bid and sum_ask are the total quantities of the
\* levels listed in data.bids and data.asks, and spread is the first ask
\* price minus the first bid price, or null when a side is empty.
C30_SummaryMatchesListedLevels ==
    BookReturned
        => /\ Result.summary.sum_bid = sum_amounts(Result.data.bids)
           /\ Result.summary.sum_ask = sum_amounts(Result.data.asks)
           /\ Result.summary.spread = IF Result.data.bids # <<>> /\ Result.data.asks # <<>>
                                      THEN <<Result.data.asks[1][1] - Result.data.bids[1][1]>>
                                      ELSE <<>>

\* C30, the failing case: the exchange answered two levels a side to a
\* request for one; the result lists the best bid of quantity 2 and gives
\* sum_bid 5.
C30_SumCountsUnlistedLevels ==
    /\ BookReturned
    /\ inv.args.limit = 1
    /\ inv.ext.book = BookTwo
    /\ Result.data.bids = <<<<99, 2>>>>
    /\ Result.summary.sum_bid = 5
    /\ Result.summary.spread = <<2>>

====
